---------------------------- MODULE Spec2Model ----------------------------
(* A model of the analysis pipeline of the deployable backend:              *)
(*   - chunk_files            (api/endpoints/analysis.py)                   *)
(*   - LLMClientPool          (services/multithreading_service.py)          *)
(*   - analyze_file_batch and analyze_repository                            *)
(*                            (api/endpoints/analysis.py)                   *)
(*   - the stream registry and event_generator                              *)
(*                            (api/endpoints/streaming.py)                  *)
(*   - the analyze_file_batch of api/endpoints/streaming.py                 *)
(*   - StatService            (services/stats_service.py) and the poll loop *)
(*                            (background_tasks.py)                         *)
(*   - BackgroundManager      (core/background_manager.py)                  *)
(*   - _extract_json          (services/LLM_service.py)                     *)
(* Each part has a specification of its own (SpecChunk, SpecPool,           *)
(* SpecAnalysis, SpecStream, SpecStreamBatch, SpecStreamAnalysis,           *)
(* SpecStats, SpecStatsRead, SpecStatsLive, SpecLoop, SpecWorkers,          *)
(* SpecShutdown, SpecExtract); the variables of the other parts stay at     *)
(* their initial values.                                                    *)
EXTENDS Integers, Sequences, FiniteSets, Bags, TLC

VARIABLES
    \* ---- chunk_files, called on its own
    files,              \* the argument `files`: a sequence of file records
    chunk_size,         \* the argument `chunk_size`
    chunks,             \* the value returned
    cpc,                \* "call" before the call, "done" after it
    \* ---- the environment and one LLMClientPool
    deepseek_key,       \* whether DEEPSEEK_API_KEY is set in the environment
    llm_provider,       \* LLMClientPool.llm_provider
    clients,            \* LLMClientPool.clients: a list of client instances
    lock,               \* LLMClientPool.lock: 0 when free, else its holder
    constructed,        \* every client instance constructed so far: instance
                        \* i is of provider constructed[i]
    out,                \* the instances get_client has handed out and that
                        \* have not been passed to return_client since
    \* ---- threads calling the pool directly (SpecPool)
    tpc,                \* where each thread is
    theld,              \* the instance each thread holds, 0 for none
    tops,               \* the number of get_client calls each thread made
    \* ---- one synchronous analyze_repository request (SpecAnalysis)
    apc,                \* where the request handler is
    file_chunks,        \* analyze_repository: file_chunks
    max_workers,        \* analyze_repository: max_workers
    bpc,                \* where the analyze_file_batch call of each chunk is
    bclient,            \* analyze_file_batch: deepseek_client (0: none held)
    boutcome,           \* what call_model did in the batch of each chunk
    bresult,            \* what analyze_file_batch returns for each chunk
    done_order,         \* the chunk futures, in the order they completed
    snapshot,           \* the futures already finished when as_completed began
    yielded,            \* the chunk futures as_completed has yielded, in order
    completed,          \* analyze_repository: completed
    all_recommendations,\* analyze_repository: all_recommendations
    response,           \* the recommendations of the AnalysisResponse returned
    \* ---- the stream registry and its event generators (SpecStream)
    analysis_streams,   \* streaming.py:18: the keys of the registry; the queue
                        \* of key id is queues[id]
    queues,             \* the asyncio.Queue made for each id ever started: a
                        \* queue lives on while a generator holds it
    puts,               \* the number of events put on queues so far
    gpc,                \* where each event generator is
    gid,                \* event_generator: analysis_id
    gout,               \* what each event generator has yielded so far
    glog,               \* the "Invalid data type" / "Invalid event type"
                        \* errors each event generator has logged
    \* ---- the analysis_id of a request (SpecStreamBatch, SpecStreamAnalysis)
    request_id,         \* AnalysisRequest.analysis_id, the analysis_id argument
                        \* of streaming.analyze_file_batch; 0 for None
    \* ---- the stats counters and their users (SpecStats)
    redis_client,       \* StatService.redis_client is configured
    counters,           \* the values of the three deployable:stats:* keys
    applied,            \* the (num_files, num_recommendations) of the
                        \* increment pipelines executed so far, in order
    published,          \* the messages published on STATS_CHANNEL, in order
    observed,           \* every result get_current_stats has returned
    spc,                \* where each increment_analysis_stats call is
    sargs,              \* its arguments
    snew,               \* increment_analysis_stats: new_stats
    ppc,                \* where poll_stats_and_publish is
    pcurrent,           \* poll_stats_and_publish: current_stats
    polls,              \* the rounds of the poll loop so far
    \* ---- one call of get_current_stats on any store (SpecStatsRead)
    store,              \* what GET returns for each of the three keys
    execute_fails,      \* whether pipe.execute() raises a redis error
    rresult,            \* how the call ended and what it returned
    \* ---- a subscriber of the stats channel (SpecStatsLive)
    subscribed,         \* the websocket handler has subscribed
    received,           \* the last message forwarded to the websocket
    pfails,             \* the read and publish attempts that failed so far
    \* ---- the event loop during a request (SpecLoop)
    ticks,              \* the steps other tasks of the event loop have run
    \* ---- BackgroundManager (SpecShutdown)
    tasks,              \* BackgroundManager._tasks
    task_state,         \* the state of every task ever created
    tasks_to_await,     \* shutdown: tasks_to_await
    resources_to_cleanup, \* BackgroundManager._resources_to_cleanup
    close_calls,        \* for every resource: whether it was registered and
                        \* how the call of its close() ended
    shpc,               \* where shutdown is
    \* ---- one call of _extract_json (SpecExtract)
    llm_array,          \* the JSON array the model output carries
    llm_form,           \* how the output wraps it
    llm_text,           \* the argument `text`
    extracted,          \* the value returned
    \* ---- one call of call_model_with_cache (SpecCache)
    cache_env,          \* settings.USE_REDIS, the argument redis_client, and
                        \* how redis_client.get, redis_client.set and the
                        \* calls of call_model end
    cmpc,               \* where the call is
    model_calls,        \* the calls of self.call_model so far
    cm_result           \* what the call gave its caller

chunkVars == <<files, chunk_size, chunks, cpc>>
poolVars == <<deepseek_key, llm_provider, clients, lock, constructed, out>>
threadVars == <<tpc, theld, tops>>
batchVars == <<bpc, bclient, boutcome, bresult, done_order>>
orchVars == <<apc, file_chunks, max_workers, snapshot, yielded, completed,
              all_recommendations, response>>
analysisVars == <<batchVars, orchVars>>

streamVars == <<analysis_streams, queues, puts, gpc, gid, gout, glog>>

requestVars == <<request_id>>
statsVars == <<redis_client, counters, applied, published, observed, spc, sargs,
               snew, ppc, pcurrent, polls>>

readVars == <<store, execute_fails, rresult>>
liveVars == <<subscribed, received, pfails>>
loopVars == <<ticks>>
shutdownVars == <<tasks, task_state, tasks_to_await, resources_to_cleanup,
                  close_calls, shpc>>
extractVars == <<llm_array, llm_form, llm_text, extracted>>
cacheVars == <<cache_env, cmpc, model_calls, cm_result>>
extraVars == <<readVars, liveVars, loopVars, shutdownVars, extractVars, cacheVars>>

vars == <<chunkVars, poolVars, threadVars, analysisVars, streamVars,
          requestVars, statsVars, extraVars>>

\* what the actions of one specification leave alone
offChunk == <<poolVars, threadVars, analysisVars, streamVars, requestVars,
              statsVars,
    extraVars>>
offPool == <<chunkVars, analysisVars, streamVars, requestVars, statsVars,
    extraVars>>
offAnalysis == <<chunkVars, threadVars, streamVars, requestVars, statsVars,
    extraVars>>
offStream == <<chunkVars, poolVars, threadVars, analysisVars, requestVars,
               statsVars,
    extraVars>>
offStats == <<chunkVars, poolVars, threadVars, analysisVars, streamVars,
              requestVars,
    extraVars>>

---------------------------------------------------------------------------
(* Bounds of the model *)

MaxFiles == 7
MaxChunkSize == 3
MaxPoolSize == 2        \* the largest size a pool is constructed with
PoolThreads == 2        \* the threads calling the pool in SpecPool
MaxPoolOps == 2         \* the get_client calls of one thread in SpecPool
MaxFetched == 11        \* the most files one analysis fetches
MaxRecs == 2            \* the most recommendations in one model answer
MaxPuts == 2            \* the most events put on queues
MaxYields == 2          \* a generator times out only while it has yielded less
\* The cap on worker threads.  analysis.py:199 has 10; the model keeps the
\* formula max(1, min(len(file_chunks), cap)) and takes a cap small enough
\* for an analysis to have more chunks than workers.
WorkerCap == 2
MaxStatCalls == 2       \* the concurrent increment_analysis_stats calls
MaxPolls == 1           \* the rounds of the stats poll loop

---------------------------------------------------------------------------
(* The state of a part that a specification does not use *)

ChunkIdle ==
    /\ files = <<>>
    /\ chunk_size = 1
    /\ chunks = <<>>
    /\ cpc = "idle"

PoolIdle ==
    /\ deepseek_key = FALSE
    /\ llm_provider = "none"
    /\ clients = <<>>
    /\ lock = 0
    /\ constructed = <<>>
    /\ out = {}

ThreadsIdle ==
    /\ tpc = <<>>
    /\ theld = <<>>
    /\ tops = <<>>

AnalysisIdle ==
    /\ apc = "idle"
    /\ file_chunks = <<>>
    /\ max_workers = 0
    /\ bpc = <<>>
    /\ bclient = <<>>
    /\ boutcome = <<>>
    /\ bresult = <<>>
    /\ done_order = <<>>
    /\ snapshot = {}
    /\ yielded = <<>>
    /\ completed = 0
    /\ all_recommendations = <<>>
    /\ response = <<>>

StreamIdle ==
    /\ analysis_streams = {}
    /\ queues = <<>>
    /\ puts = 0
    /\ gpc = <<>>
    /\ gid = <<>>
    /\ gout = <<>>
    /\ glog = <<>>

RequestIdle == request_id = 0

ReadIdle ==
    /\ store = <<>>
    /\ execute_fails = FALSE
    /\ rresult = [done |-> FALSE, raised |-> FALSE, value |-> <<>>]

LiveIdle ==
    /\ subscribed = FALSE
    /\ received = <<>>
    /\ pfails = 0

LoopIdle == ticks = 0

ShutdownIdle ==
    /\ tasks = {}
    /\ task_state = <<>>
    /\ tasks_to_await = <<>>
    /\ resources_to_cleanup = <<>>
    /\ close_calls = <<>>
    /\ shpc = "unused"

ExtractIdle ==
    /\ llm_array = <<>>
    /\ llm_form = "none"
    /\ llm_text = <<>>
    /\ extracted = [done |-> FALSE, value |-> <<>>]

NoCacheEnv ==
    [use_redis |-> FALSE, redis_client |-> FALSE, get |-> "none", set |-> "ok",
     model |-> <<>>]

CacheIdle ==
    /\ cache_env = NoCacheEnv
    /\ cmpc = "unused"
    /\ model_calls = 0
    /\ cm_result = "none"

ExtraIdle ==
    ReadIdle /\ LiveIdle /\ LoopIdle /\ ShutdownIdle /\ ExtractIdle /\ CacheIdle

StatsIdle ==
    /\ redis_client = FALSE
    /\ counters = [repos |-> 0, files |-> 0, recommendations |-> 0]
    /\ applied = <<>>
    /\ published = <<>>
    /\ observed = {}
    /\ spc = <<>>
    /\ sargs = <<>>
    /\ snew = <<>>
    /\ ppc = "idle"
    /\ pcurrent = [repos |-> 0, files |-> 0, recommendations |-> 0]
    /\ polls = 0

---------------------------------------------------------------------------
(* Generic helpers *)

Min(a, b) == IF a < b THEN a ELSE b
Max(a, b) == IF a > b THEN a ELSE b

Range(s) == {s[i] : i \in 1..Len(s)}

RECURSIVE Flatten(_)
Flatten(ss) == IF ss = <<>> THEN <<>> ELSE Head(ss) \o Flatten(Tail(ss))

RECURSIVE SumSeq(_)
SumSeq(s) == IF s = <<>> THEN 0 ELSE Head(s) + SumSeq(Tail(s))

CeilDiv(a, b) == (a + b - 1) \div b

---------------------------------------------------------------------------
(* File records.  A name is a sequence of characters; <<>> is the value    *)
(* file.get('name', '') gives for a record without a 'name' key, which is  *)
(* what get_file_content_batch produces ({"path", "content"}).             *)

NoName == <<>>
NameAPy == <<"a", ".", "p", "y">>
NameBTJs == <<"b", ".", "t", ".", "j", "s">>
Names == {NoName, NameAPy, NameBTJs}

\* the literal 'unknown' of analysis.py:113
Unknown == <<"u", "n", "k", "n", "o", "w", "n">>

\* a file list: the record at position i has the path i
FileLists(n) == {[i \in 1..n |-> [path |-> i, name |-> nm[i]]] : nm \in [1..n -> Names]}

\* name.split('.')[-1]: what follows the last '.'
LastSegment(name) ==
    LET dots == {i \in 1..Len(name) : name[i] = "."}
        last == CHOOSE i \in dots : \A j \in dots : j <= i
    IN  SubSeq(name, last + 1, Len(name))

\* analysis.py:113
FileExt(file) ==
    IF "." \in Range(file.name) THEN LastSegment(file.name) ELSE Unknown

\* analysis.py:110-116: the insertion-ordered dict grouped_files, as a
\* sequence of [ext, group] entries in the order the keys were first seen
RECURSIVE GroupFiles(_)
GroupFiles(fs) ==
    IF fs = <<>> THEN <<>>
    ELSE LET prev == GroupFiles(SubSeq(fs, 1, Len(fs) - 1))
             f == fs[Len(fs)]
             ext == FileExt(f)
         IN  IF \E k \in 1..Len(prev) : prev[k].ext = ext
             THEN [k \in 1..Len(prev) |->
                     IF prev[k].ext = ext
                     THEN [prev[k] EXCEPT !.group = Append(@, f)]
                     ELSE prev[k]]
             ELSE Append(prev, [ext |-> ext, group |-> <<f>>])

\* [s[i:i + n] for i in range(0, len(s), n)]
Slices(s, n) ==
    [k \in 1..CeilDiv(Len(s), n) |-> SubSeq(s, (k - 1) * n + 1, Min(k * n, Len(s)))]

\* analysis.py:123-129, for all groups: the complete chunks, in order
RECURSIVE CompleteChunks(_, _)
CompleteChunks(groups, n) ==
    IF groups = <<>> THEN <<>>
    ELSE SelectSeq(Slices(Head(groups).group, n), LAMBDA c : Len(c) = n)
         \o CompleteChunks(Tail(groups), n)

\* analysis.py:123-129, for all groups: remaining_files
RECURSIVE RemainingFiles(_, _)
RemainingFiles(groups, n) ==
    IF groups = <<>> THEN <<>>
    ELSE Flatten(SelectSeq(Slices(Head(groups).group, n), LAMBDA c : Len(c) # n))
         \o RemainingFiles(Tail(groups), n)

\* mutant: the remaining files are never chunked (the loop of 132-133 is lost)
chunk_files_drop_remaining(fs, n) == CompleteChunks(GroupFiles(fs), n)

\* mutant: an incomplete slice of a group becomes a chunk of its own
chunk_files_partial_per_group(fs, n) ==
    LET groups == GroupFiles(fs)
    IN  Flatten([k \in 1..Len(groups) |-> Slices(groups[k].group, n)])

\* mutant: the remaining files become one chunk, whatever their number
chunk_files_one_remaining(fs, n) ==
    LET groups == GroupFiles(fs)
        rest == RemainingFiles(groups, n)
    IN  CompleteChunks(groups, n) \o (IF rest = <<>> THEN <<>> ELSE <<rest>>)

\* analysis.py:98-136
chunk_files(fs, n) ==
    LET groups == GroupFiles(fs)
    IN  CompleteChunks(groups, n) \o Slices(RemainingFiles(groups, n), n)

---------------------------------------------------------------------------
(* LLMClientPool (services/multithreading_service.py).  A client instance  *)
(* is a number: instance i is the i-th one constructed.                     *)

Providers == {"groq", "deepseek"}

\* LLM_service.py:335: the default of create_language_service's `provider`
DefaultProvider == "deepseek"

\* LLM_service.py:172-176, 234-238: a service cannot be constructed without
\* its API key.  The pools of the model exist, so the key of their own
\* provider is set; DEEPSEEK_API_KEY may or may not be.
KeySet(provider, dkey) == provider # "deepseek" \/ dkey

\* multithreading_service.py:9-19: the pool after __init__(size, provider)
NewPoolClients(size) == [i \in 1..size |-> i]
NewPoolConstructed(size, provider) == [i \in 1..size |-> provider]

\* mutant: get_client hands out the last pooled instance and leaves it pooled
get_client_no_pop(cl, cons, dkey) ==
    IF cl = <<>>
    THEN IF KeySet(DefaultProvider, dkey)
         THEN [raised |-> FALSE, client |-> Len(cons) + 1, clients |-> cl,
               constructed |-> Append(cons, DefaultProvider)]
         ELSE [raised |-> TRUE, client |-> 0, clients |-> cl, constructed |-> cons]
    ELSE [raised |-> FALSE, client |-> cl[Len(cl)], clients |-> cl,
          constructed |-> cons]

\* multithreading_service.py:23-26: the body of get_client, under the lock.
\* An empty pool constructs a client with create_language_service(), which
\* raises when the key of the default provider is not set.
get_client(cl, cons, dkey) ==
    IF cl = <<>>
    THEN IF KeySet(DefaultProvider, dkey)
         THEN [raised |-> FALSE, client |-> Len(cons) + 1, clients |-> cl,
               constructed |-> Append(cons, DefaultProvider)]
         ELSE [raised |-> TRUE, client |-> 0, clients |-> cl, constructed |-> cons]
    ELSE [raised |-> FALSE, client |-> cl[Len(cl)],
          clients |-> SubSeq(cl, 1, Len(cl) - 1), constructed |-> cons]

\* mutant: a pool that already has a client discards the returned one
return_client_discards(cl, c) == IF cl = <<>> THEN Append(cl, c) ELSE cl

\* multithreading_service.py:30: the body of return_client, under the lock
return_client(cl, c) == Append(cl, c)

---------------------------------------------------------------------------
(* SpecPool: threads that call get_client and return_client of one pool.   *)
(* A caller passes to return_client the client it got from get_client, at  *)
(* most once, or ends without returning it (analysis.py:48-96).            *)

Threads == 1..PoolThreads

InitPool ==
    /\ ChunkIdle
    /\ AnalysisIdle
    /\ StreamIdle
    /\ RequestIdle
    /\ StatsIdle
    /\ ExtraIdle
    /\ deepseek_key \in BOOLEAN
    /\ llm_provider \in {p \in Providers : KeySet(p, deepseek_key)}
    /\ \E size \in 0..MaxPoolSize :
          /\ clients = NewPoolClients(size)
          /\ constructed = NewPoolConstructed(size, llm_provider)
    /\ lock = 0
    /\ out = {}
    /\ tpc = [t \in Threads |-> "idle"]
    /\ theld = [t \in Threads |-> 0]
    /\ tops = [t \in Threads |-> 0]

\* multithreading_service.py:22: `with self.lock` of get_client
PoolGetLock(t) ==
    /\ tpc[t] = "idle"
    /\ tops[t] < MaxPoolOps
    /\ lock = 0
    /\ lock' = t
    /\ tpc' = [tpc EXCEPT ![t] = "get"]
    /\ tops' = [tops EXCEPT ![t] = @ + 1]
    /\ UNCHANGED <<offPool, deepseek_key, llm_provider, clients, constructed, out, theld>>

\* multithreading_service.py:23-26
PoolGetBody(t) ==
    /\ tpc[t] = "get"
    /\ lock = t
    /\ LET r == get_client(clients, constructed, deepseek_key)
       IN  /\ clients' = r.clients
           /\ constructed' = r.constructed
           /\ theld' = [theld EXCEPT ![t] = r.client]
           /\ out' = IF r.raised THEN out ELSE out \cup {r.client}
           /\ tpc' = [tpc EXCEPT ![t] = IF r.raised THEN "idle" ELSE "hold"]
    /\ lock' = 0
    /\ UNCHANGED <<offPool, deepseek_key, llm_provider, tops>>

\* multithreading_service.py:29: `with self.lock` of return_client
PoolReturnLock(t) ==
    /\ tpc[t] = "hold"
    /\ lock = 0
    /\ lock' = t
    /\ tpc' = [tpc EXCEPT ![t] = "return"]
    /\ UNCHANGED <<offPool, deepseek_key, llm_provider, clients, constructed, out, theld, tops>>

\* multithreading_service.py:30
PoolReturnBody(t) ==
    /\ tpc[t] = "return"
    /\ lock = t
    /\ clients' = return_client(clients, theld[t])
    /\ out' = out \ {theld[t]}
    /\ theld' = [theld EXCEPT ![t] = 0]
    /\ tpc' = [tpc EXCEPT ![t] = "idle"]
    /\ lock' = 0
    /\ UNCHANGED <<offPool, deepseek_key, llm_provider, constructed, tops>>

\* analysis.py:94-96: the caller ends without calling return_client
PoolDrop(t) ==
    /\ tpc[t] = "hold"
    /\ theld' = [theld EXCEPT ![t] = 0]
    /\ tpc' = [tpc EXCEPT ![t] = "idle"]
    /\ UNCHANGED <<offPool, poolVars, tops>>

NextPool ==
    \E t \in Threads :
        \/ PoolGetLock(t)
        \/ PoolGetBody(t)
        \/ PoolReturnLock(t)
        \/ PoolReturnBody(t)
        \/ PoolDrop(t)

SpecPool == InitPool /\ [][NextPool]_vars

---------------------------------------------------------------------------
(* SpecChunk: chunk_files applied to every file list within the bounds *)

InitChunk ==
    /\ PoolIdle
    /\ ThreadsIdle
    /\ AnalysisIdle
    /\ StreamIdle
    /\ RequestIdle
    /\ StatsIdle
    /\ ExtraIdle
    /\ files \in UNION {FileLists(n) : n \in 0..MaxFiles}
    /\ chunk_size \in 1..MaxChunkSize
    /\ chunks = <<>>
    /\ cpc = "call"

CallChunkFiles ==
    /\ cpc = "call"
    /\ chunks' = chunk_files(files, chunk_size)
    /\ cpc' = "done"
    /\ UNCHANGED <<files, chunk_size, offChunk>>

NextChunk == CallChunkFiles

SpecChunk == InitChunk /\ [][NextChunk]_vars

ChunkSizes == [k \in 1..Len(chunks) |-> Len(chunks[k])]
ChunkExts == {FileExt(files[i]) : i \in 1..Len(files)}


---------------------------------------------------------------------------
(* analyze_file_batch (api/endpoints/analysis.py:31-96) *)

\* What call_model does in one batch: it raises, or it returns a text that
\*   is not JSON ("not_json"),
\*   is a JSON array of n recommendation mappings ("array"; valid says
\*     whether the mappings fit the Recommendation schema),
\*   is a JSON object ("object"), or
\*   is a JSON number or null ("scalar").
ModelOutcomes ==
    {[kind |-> "raise", n |-> 0, valid |-> TRUE],
     [kind |-> "not_json", n |-> 0, valid |-> TRUE],
     [kind |-> "object", n |-> 1, valid |-> FALSE],
     [kind |-> "scalar", n |-> 0, valid |-> TRUE],
     [kind |-> "array", n |-> 1, valid |-> FALSE]}
    \cup {[kind |-> "array", n |-> k, valid |-> TRUE] : k \in 0..MaxRecs}

NoOutcome == [kind |-> "none", n |-> 0, valid |-> TRUE]

\* the k-th entry of the model's answer for chunk i
ModelItem(i, k, o) ==
    [chunk |-> i, k |-> k,
     title |-> IF o.kind = "object" THEN "key" ELSE "finding",
     valid |-> o.valid]

\* mutant: the synthetic entry does not fit the Recommendation schema
JsonParsingError_invalid(i) ==
    [chunk |-> i, k |-> 0, title |-> "JSON Parsing Error", valid |-> FALSE]

\* analysis.py:80-92
JsonParsingError(i) ==
    [chunk |-> i, k |-> 0, title |-> "JSON Parsing Error", valid |-> TRUE]

\* a value analyze_file_batch returns: a list or, for a JSON object, the dict
EmptyList == [raised |-> FALSE, kind |-> "list", value |-> <<>>]
NoResult == [raised |-> FALSE, kind |-> "none", value |-> <<>>]

\* mutant: the handler of analysis.py:94-96 is missing, the exception leaves
\* analyze_file_batch
batch_after_call_no_handler(i, o) ==
    CASE o.kind = "raise" ->
            [returns_client |-> FALSE,
             result |-> [raised |-> TRUE, kind |-> "none", value |-> <<>>]]
      [] o.kind = "scalar" ->
            [returns_client |-> FALSE,
             result |-> [raised |-> TRUE, kind |-> "none", value |-> <<>>]]
      [] o.kind = "not_json" ->
            [returns_client |-> TRUE,
             result |-> [raised |-> FALSE, kind |-> "list",
                         value |-> <<JsonParsingError(i)>>]]
      [] o.kind = "object" ->
            [returns_client |-> TRUE,
             result |-> [raised |-> FALSE, kind |-> "dict",
                         value |-> [k \in 1..o.n |-> ModelItem(i, k, o)]]]
      [] OTHER ->
            [returns_client |-> TRUE,
             result |-> [raised |-> FALSE, kind |-> "list",
                         value |-> [k \in 1..o.n |-> ModelItem(i, k, o)]]]

\* analysis.py:58-96: what analyze_file_batch does once call_model is over:
\* whether it calls return_client, and what it returns.
\*   call_model raises                -> line 94: no return_client, []
\*   json.loads raises JSONDecodeError -> line 74: return_client, the
\*                                        synthetic entry
\*   a number or null: len() of line 69 raises TypeError
\*                                     -> line 94: no return_client, []
\*   an array or an object            -> line 72: return_client, the value
batch_after_call(i, o) ==
    CASE o.kind = "raise" ->
            [returns_client |-> FALSE, result |-> EmptyList]
      [] o.kind = "scalar" ->
            [returns_client |-> FALSE, result |-> EmptyList]
      [] o.kind = "not_json" ->
            [returns_client |-> TRUE,
             result |-> [raised |-> FALSE, kind |-> "list",
                         value |-> <<JsonParsingError(i)>>]]
      [] o.kind = "object" ->
            [returns_client |-> TRUE,
             result |-> [raised |-> FALSE, kind |-> "dict",
                         value |-> [k \in 1..o.n |-> ModelItem(i, k, o)]]]
      [] OTHER ->
            [returns_client |-> TRUE,
             result |-> [raised |-> FALSE, kind |-> "list",
                         value |-> [k \in 1..o.n |-> ModelItem(i, k, o)]]]

---------------------------------------------------------------------------
(* SpecAnalysis: one synchronous analyze_repository request               *)
(* (api/endpoints/analysis.py:138-244) with its thread pool executor, its  *)
(* client pool and one analyze_file_batch call per chunk.                  *)

\* analysis.py:28
CURRENT_LLM_PROVIDER == "groq"

\* analysis.py:193: chunk_files(file_contents, chunk_size=5)
AnalysisChunkSize == 5

\* github_service.py:467-476: the fetched records have no 'name' key
FetchedFiles(n) == [i \in 1..n |-> [path |-> i, name |-> NoName]]

ChunkIds == 1..Len(file_chunks)

\* the batches a worker thread of the executor is running
Running == {i \in ChunkIds : bpc[i] \notin {"queued", "done"}}

InitAnalysis ==
    /\ ChunkIdle
    /\ ThreadsIdle
    /\ StreamIdle
    /\ RequestIdle
    /\ StatsIdle
    /\ ExtraIdle
    /\ deepseek_key \in BOOLEAN
    /\ llm_provider = "none"
    /\ clients = <<>>
    /\ lock = 0
    /\ constructed = <<>>
    /\ out = {}
    /\ apc = "start"
    /\ file_chunks = <<>>
    /\ max_workers = 0
    /\ bpc = <<>>
    /\ bclient = <<>>
    /\ boutcome = <<>>
    /\ bresult = <<>>
    /\ done_order = <<>>
    /\ snapshot = {}
    /\ yielded = <<>>
    /\ completed = 0
    /\ all_recommendations = <<>>
    /\ response = <<>>

\* mutant: no floor of one worker
max_workers_for_no_floor(c, cap) == Min(c, cap)

\* analysis.py:199: max(1, min(len(file_chunks), cap))
max_workers_for(c, cap) == Max(1, Min(c, cap))

\* analysis.py:199, with the cap of the model
worker_count(n) == max_workers_for(n, WorkerCap)

\* analysis.py:152-208: the files are listed, identified and fetched, the
\* chunks and the client pool are made and every chunk is submitted to the
\* executor
AnalysisSubmit ==
    /\ apc = "start"
    /\ \E n \in 0..MaxFetched :
          file_chunks' = chunk_files(FetchedFiles(n), AnalysisChunkSize)
    /\ max_workers' = worker_count(Len(file_chunks'))
    /\ llm_provider' = CURRENT_LLM_PROVIDER
    /\ clients' = NewPoolClients(max_workers')
    /\ constructed' = NewPoolConstructed(max_workers', CURRENT_LLM_PROVIDER)
    /\ bpc' = [i \in 1..Len(file_chunks') |-> "queued"]
    /\ bclient' = [i \in 1..Len(file_chunks') |-> 0]
    /\ boutcome' = [i \in 1..Len(file_chunks') |-> NoOutcome]
    /\ bresult' = [i \in 1..Len(file_chunks') |-> NoResult]
    /\ apc' = "running"
    /\ UNCHANGED <<offAnalysis, deepseek_key, lock, out, done_order, snapshot,
                   yielded, completed, all_recommendations, response>>

\* analysis.py:152-200, 241-244: a step before the fan-out raises
\* (list_filenames, create_language_service, call_model,
\* get_file_content_batch, LLMClientPool)
AnalysisSetupRaises ==
    /\ apc = "start"
    /\ apc' = "failed"
    /\ UNCHANGED <<offAnalysis, poolVars, batchVars, file_chunks, max_workers,
                   snapshot, yielded, completed, all_recommendations, response>>

\* concurrent.futures.ThreadPoolExecutor: a free worker thread takes the
\* next work item of the queue, in the order of submission.
\* analysis.py:43-48, multithreading_service.py:21-26: the batch runs up to
\* the return of get_client, which takes the pool's lock, pops or constructs
\* a client and releases the lock; when get_client raises, analysis.py:94-96
\* returns []
BatchGetClient(i) ==
    /\ apc \in {"running", "collect"}
    /\ bpc[i] = "queued"
    /\ \A j \in ChunkIds : j < i => bpc[j] # "queued"
    /\ Cardinality(Running) < max_workers
    /\ lock = 0
    /\ LET r == get_client(clients, constructed, deepseek_key)
       IN  /\ clients' = r.clients
           /\ constructed' = r.constructed
           /\ bclient' = [bclient EXCEPT ![i] = r.client]
           /\ out' = IF r.raised THEN out ELSE out \cup {r.client}
           /\ bpc' = [bpc EXCEPT ![i] = IF r.raised THEN "done" ELSE "call"]
           /\ bresult' = [bresult EXCEPT ![i] = IF r.raised THEN EmptyList ELSE @]
           /\ done_order' = IF r.raised THEN Append(done_order, i) ELSE done_order
    /\ UNCHANGED <<offAnalysis, orchVars, deepseek_key, llm_provider, lock, boutcome>>

\* analysis.py:53-69, 74-76, 94-96: call_model is over and its answer parsed
BatchCallModel(i) ==
    /\ bpc[i] = "call"
    /\ \E o \in ModelOutcomes :
          LET b == batch_after_call(i, o)
          IN  /\ boutcome' = [boutcome EXCEPT ![i] = o]
              /\ bresult' = [bresult EXCEPT ![i] = b.result]
              /\ bpc' = [bpc EXCEPT ![i] = IF b.returns_client THEN "return" ELSE "done"]
              /\ done_order' = IF b.returns_client THEN done_order
                               ELSE Append(done_order, i)
    /\ UNCHANGED <<offAnalysis, poolVars, orchVars, bclient>>

\* analysis.py:72-73, 79-92, multithreading_service.py:28-30: return_client
\* takes the pool's lock, appends the client and releases the lock; the
\* batch returns
BatchReturnClient(i) ==
    /\ bpc[i] = "return"
    /\ lock = 0
    /\ clients' = return_client(clients, bclient[i])
    /\ out' = out \ {bclient[i]}
    /\ bclient' = [bclient EXCEPT ![i] = 0]
    /\ bpc' = [bpc EXCEPT ![i] = "done"]
    /\ done_order' = Append(done_order, i)
    /\ UNCHANGED <<offAnalysis, orchVars, deepseek_key, llm_provider, constructed,
                   lock, boutcome, bresult>>

\* analysis.py:211, concurrent.futures.as_completed: the futures that have
\* finished by now are yielded first, in no particular order
AsCompletedStart ==
    /\ apc = "running"
    /\ snapshot' = {i \in ChunkIds : bpc[i] = "done"}
    /\ apc' = "collect"
    /\ UNCHANGED <<offAnalysis, poolVars, batchVars, file_chunks, max_workers,
                   yielded, completed, all_recommendations, response>>

\* mutant: as_completed yields only the futures that had finished when it
\* was called
NextYield_finished_only == snapshot \ Range(yielded)

\* the futures as_completed can yield next: one of the snapshot, or, when
\* these are all yielded, the one that completed first among the others
NextYield ==
    LET rest == SelectSeq(done_order,
                          LAMBDA i : i \notin snapshot /\ i \notin Range(yielded))
    IN  IF snapshot \ Range(yielded) # {} THEN snapshot \ Range(yielded)
        ELSE IF rest = <<>> THEN {} ELSE {Head(rest)}

\* mutant: the list of the chunk is put in front of the merged list
merge_prepend(all, res) == IF res.raised THEN all ELSE res.value \o all

\* mutant: the list of the chunk replaces the merged list
merge_replace(all, res) == IF res.raised THEN all ELSE res.value

\* analysis.py:213-224: future.result() and all_recommendations.extend; an
\* exception of the future is logged and nothing is merged
merge(all, res) == IF res.raised THEN all ELSE all \o res.value

\* analysis.py:211-224: one round of the as_completed loop
AnalysisMerge(i) ==
    /\ apc = "collect"
    /\ i \in NextYield
    /\ yielded' = Append(yielded, i)
    /\ completed' = IF bresult[i].raised THEN completed ELSE completed + 1
    /\ all_recommendations' = merge(all_recommendations, bresult[i])
    /\ UNCHANGED <<offAnalysis, poolVars, batchVars, apc, file_chunks, max_workers,
                   snapshot, response>>

\* mutant: the response is built without validating its entries
ResponseValid_unchecked(recs) == TRUE

\* schemas.py:50-56, 98-103: AnalysisResponse validates its recommendations
ResponseValid(recs) == \A k \in 1..Len(recs) : recs[k].valid

\* analysis.py:226-244: every future is yielded; the response is built, and
\* a validation error of it is the "Analysis failed" of line 244
AnalysisReturn ==
    /\ apc = "collect"
    /\ Len(yielded) = Len(file_chunks)
    /\ IF ResponseValid(all_recommendations)
       THEN apc' = "returned" /\ response' = all_recommendations
       ELSE apc' = "failed" /\ response' = response
    /\ UNCHANGED <<offAnalysis, poolVars, batchVars, file_chunks, max_workers,
                   snapshot, yielded, completed, all_recommendations>>

NextAnalysis ==
    \/ AnalysisSubmit
    \/ AnalysisSetupRaises
    \/ AsCompletedStart
    \/ AnalysisReturn
    \/ \E i \in ChunkIds :
          \/ BatchGetClient(i)
          \/ BatchCallModel(i)
          \/ BatchReturnClient(i)
          \/ AnalysisMerge(i)

SpecAnalysis == InitAnalysis /\ [][NextAnalysis]_vars

---------------------------------------------------------------------------
(* SpecStream: the stream registry analysis_streams, start_analysis_stream *)
(* and event_generator (api/endpoints/streaming.py:18-77), with a producer *)
(* that puts events on the queue of a registered id.                       *)

\* analysis ids (uuid4 strings): the two that start_analysis_stream issues,
\* in this order, and one that is never issued
IssuedIds == {1, 2}
StreamIds == IssuedIds \cup {3}
\* two event generators, which may connect to the same id
Gens == {1, 2}

\* schemas.py:23-27: AnalysisEventType.__members__
AnalysisEventType == {"PROGRESS", "RECOMMENDATION", "COMPLETE", "HEARTBEAT"}

\* the items a producer can put on a queue: a mapping with a known tag, a
\* mapping with another tag, and an item that is not a mapping
QueueItems ==
    {[dict |-> TRUE, type |-> ty] : ty \in AnalysisEventType \cup {"ERROR"}}
    \cup {[dict |-> FALSE, type |-> "none"]}

\* streaming.py:49, 61: f"data: {json.dumps(data)}\n\n"
Formatted(data) == [sse |-> "data", json |-> data.type]

\* streaming.py:60: AnalysisHeartbeatEvent().dict()
HeartbeatEvent == [dict |-> TRUE, type |-> "HEARTBEAT"]

\* mutant: an id that is not registered gets a queue
connect_creates(streams, id) == [found |-> TRUE, streams |-> streams \cup {id}]

\* streaming.py:24-28: the lookup of the analysis_id
connect(streams, id) == [found |-> id \in streams, streams |-> streams]

\* mutant: the generator leaves the registry entry behind
cleanup_keeps(streams, id) == streams

\* mutant: the finally block empties the registry
cleanup_all(streams, id) == {}

\* streaming.py:62-65: the finally block
cleanup(streams, id) == streams \ {id}

\* mutant: the check of the tag is missing, an item with an unknown tag ends
\* the stream
after_item_no_tag_check(data) ==
    IF ~data.dict THEN "wait"
    ELSE IF data.type = "PROGRESS" THEN "yield"
    ELSE IF data.type \in {"RECOMMENDATION", "HEARTBEAT"} THEN "wait"
    ELSE "yield_last"

\* mutant: COMPLETE is yielded like PROGRESS, the loop goes on
after_item_no_break(data) ==
    IF ~data.dict THEN "wait"
    ELSE IF data.type \notin AnalysisEventType THEN "wait"
    ELSE IF data.type = "PROGRESS" THEN "yield"
    ELSE IF data.type = "COMPLETE" THEN "yield"
    ELSE "wait"

\* streaming.py:38-57: where the generator goes with an item of the queue:
\* "yield" (the item is yielded, the loop goes on), "yield_last" (the item is
\* yielded and the loop ends when the generator is resumed), "wait" (nothing
\* is yielded, the loop goes on)
after_item(data) ==
    IF ~data.dict THEN "wait"
    ELSE IF data.type \notin AnalysisEventType THEN "wait"
    ELSE IF data.type = "PROGRESS" THEN "yield"
    ELSE IF data.type = "COMPLETE" THEN "yield_last"
    ELSE "wait"

\* streaming.py:38-47: the item is logged as an error: it is not a mapping
\* or its tag is no member of AnalysisEventType
logs_error(data) == ~data.dict \/ data.type \notin AnalysisEventType

\* mutant: the loop ends after the heartbeat
after_timeout_break == "yield_last"

\* streaming.py:58-61: where the generator goes after a timeout: the
\* heartbeat is yielded and the loop goes on
after_timeout == "yield"

InitStream ==
    /\ ChunkIdle
    /\ PoolIdle
    /\ ThreadsIdle
    /\ AnalysisIdle
    /\ RequestIdle
    /\ StatsIdle
    /\ ExtraIdle
    /\ analysis_streams = {}
    /\ queues = <<>>
    /\ puts = 0
    /\ gpc = [g \in Gens |-> "new"]
    /\ gid = [g \in Gens |-> 0]
    /\ gout = [g \in Gens |-> <<>>]
    /\ glog = [g \in Gens |-> 0]

\* mutant: the id is not unique, every stream gets the same one
uuid4_constant(issued) == 1

\* streaming.py:72: str(uuid4()): an id that was never issued before (the
\* model issues the ids of IssuedIds in their order)
uuid4(issued) ==
    CHOOSE k \in IssuedIds \ issued : \A j \in IssuedIds \ issued : k <= j

\* streaming.py:68-77: a fresh uuid4 gets an empty queue
start_analysis_stream ==
    /\ IssuedIds \ DOMAIN queues # {}
    /\ LET id == uuid4(DOMAIN queues)
       IN  /\ analysis_streams' = analysis_streams \cup {id}
           /\ queues' = [k \in DOMAIN queues \cup {id} |->
                            IF k = id THEN <<>> ELSE queues[k]]
    /\ UNCHANGED <<offStream, puts, gpc, gid, gout, glog>>

\* the producer of an analysis: analysis_streams.get(analysis_id), then
\* queue.put(event)
QueuePut(id, item) ==
    /\ puts < MaxPuts
    /\ id \in analysis_streams
    /\ queues' = [queues EXCEPT ![id] = Append(@, item)]
    /\ puts' = puts + 1
    /\ UNCHANGED <<offStream, analysis_streams, gpc, gid, gout, glog>>

\* streaming.py:21-29: the generator is first advanced; an unknown id raises
\* the HTTPException of line 26
GeneratorConnect(g, id) ==
    /\ gpc[g] = "new"
    /\ LET c == connect(analysis_streams, id)
       IN  /\ analysis_streams' = c.streams
           /\ gpc' = [gpc EXCEPT ![g] = IF c.found THEN "wait" ELSE "not_found"]
           /\ queues' = IF id \in DOMAIN queues THEN queues
                        ELSE [k \in DOMAIN queues \cup c.streams |->
                                 IF k \in DOMAIN queues THEN queues[k] ELSE <<>>]
    /\ gid' = [gid EXCEPT ![g] = id]
    /\ UNCHANGED <<offStream, puts, gout, glog>>

\* mutant: queue.get() leaves the item on the queue
queue_get_peek(q) == [item |-> Head(q), rest |-> q]

\* streaming.py:35: asyncio.Queue.get() on a queue that has an item: the item
\* it gives and what stays queued
queue_get(q) == [item |-> Head(q), rest |-> Tail(q)]

\* streaming.py:35-57: queue.get() gives an item
GeneratorReceive(g) ==
    /\ gpc[g] = "wait"
    /\ queues[gid[g]] # <<>>
    /\ LET got == queue_get(queues[gid[g]])
           data == got.item
           to == after_item(data)
       IN  /\ gpc' = [gpc EXCEPT ![g] = to]
           /\ gout' = [gout EXCEPT ![g] =
                          IF to = "wait" THEN @ ELSE Append(@, Formatted(data))]
           /\ glog' = [glog EXCEPT ![g] = IF logs_error(data) THEN @ + 1 ELSE @]
           /\ queues' = [queues EXCEPT ![gid[g]] = got.rest]
    /\ UNCHANGED <<offStream, analysis_streams, puts, gid>>

\* streaming.py:35, 58-61: no item for 30 seconds, a heartbeat is yielded
GeneratorTimeout(g) ==
    /\ gpc[g] = "wait"
    /\ queues[gid[g]] = <<>>
    /\ Len(gout[g]) < MaxYields
    /\ gout' = [gout EXCEPT ![g] = Append(@, Formatted(HeartbeatEvent))]
    /\ gpc' = [gpc EXCEPT ![g] = after_timeout]
    /\ UNCHANGED <<offStream, analysis_streams, queues, puts, gid, glog>>

\* streaming.py:53, 61: the consumer asks for the next event after a yield
\* of the loop
GeneratorResume(g) ==
    /\ gpc[g] = "yield"
    /\ gpc' = [gpc EXCEPT ![g] = "wait"]
    /\ UNCHANGED <<offStream, analysis_streams, queues, puts, gid, gout, glog>>

\* streaming.py:55-57, 62-65: resumed after the yield of COMPLETE, the
\* generator breaks out of the loop and runs the finally block
GeneratorBreak(g) ==
    /\ gpc[g] = "yield_last"
    /\ analysis_streams' = cleanup(analysis_streams, gid[g])
    /\ gpc' = [gpc EXCEPT ![g] = "finished"]
    /\ UNCHANGED <<offStream, queues, puts, gid, gout, glog>>

\* streaming.py:62-65: the consumer goes away: the generator is closed at a
\* yield or cancelled at the await, and runs the finally block
GeneratorClose(g) ==
    /\ gpc[g] \in {"wait", "yield", "yield_last"}
    /\ analysis_streams' = cleanup(analysis_streams, gid[g])
    /\ gpc' = [gpc EXCEPT ![g] = "finished"]
    /\ UNCHANGED <<offStream, queues, puts, gid, gout, glog>>

NextStream ==
    \/ start_analysis_stream
    \/ \E id \in StreamIds, item \in QueueItems : QueuePut(id, item)
    \/ \E g \in Gens, id \in StreamIds : GeneratorConnect(g, id)
    \/ \E g \in Gens :
          \/ GeneratorReceive(g)
          \/ GeneratorTimeout(g)
          \/ GeneratorResume(g)
          \/ GeneratorBreak(g)
          \/ GeneratorClose(g)

SpecStream == InitStream /\ [][NextStream]_vars

---------------------------------------------------------------------------
(* SpecStreamBatch: the analyze_file_batch of api/endpoints/streaming.py    *)
(* (lines 94-141), called once per chunk by concurrent threads with the     *)
(* analysis_id of the request, one client pool and the stream registry.     *)

\* streaming.py:112-117: progress_event
ProgressEvent(i) == [dict |-> TRUE, type |-> "PROGRESS", chunk_index |-> i]

\* streaming.py:105-108: the function never assigns analysis_response and the
\* module has no such global: evaluating the name raises NameError
analysis_response_bound == FALSE

\* streaming.py:97-101: analysis_streams.get(analysis_id, None); an
\* asyncio.Queue is always true, so `not queue` means the id has no entry
queue_found(streams, id) == id \in streams

\* streaming.py:107-141: what the function does once it has its queue:
\* whether it puts the progress event of the chunk, and what it returns.
\*   the name analysis_response raises NameError -> line 139: no event, []
\* and, were the name bound to a model answer,
\*   json.loads raises JSONDecodeError          -> line 135: no event, []
\*   a number or null: len() raises TypeError   -> line 139: no event, []
\*   an array or an object                      -> line 126: the event is
\*                                                 put, the value returned
stream_batch_after_lookup(i, o) ==
    IF ~analysis_response_bound
    THEN [puts_progress |-> FALSE, result |-> EmptyList]
    ELSE CASE o.kind \in {"raise", "not_json", "scalar"} ->
                 [puts_progress |-> FALSE, result |-> EmptyList]
           [] o.kind = "object" ->
                 [puts_progress |-> TRUE,
                  result |-> [raised |-> FALSE, kind |-> "dict",
                              value |-> [k \in 1..o.n |-> ModelItem(i, k, o)]]]
           [] OTHER ->
                 [puts_progress |-> TRUE,
                  result |-> [raised |-> FALSE, kind |-> "list",
                              value |-> [k \in 1..o.n |-> ModelItem(i, k, o)]]]

InitStreamBatch ==
    /\ ChunkIdle
    /\ ThreadsIdle
    /\ StatsIdle
    /\ ExtraIdle
    /\ deepseek_key \in BOOLEAN
    /\ llm_provider = CURRENT_LLM_PROVIDER
    /\ \E size \in 0..MaxPoolSize :
          /\ clients = NewPoolClients(size)
          /\ constructed = NewPoolConstructed(size, CURRENT_LLM_PROVIDER)
    /\ lock = 0
    /\ out = {}
    /\ apc = "idle"
    /\ \E n \in 0..MaxFetched :
          file_chunks = chunk_files(FetchedFiles(n), AnalysisChunkSize)
    /\ max_workers = 0
    /\ bpc = [i \in 1..Len(file_chunks) |-> "queued"]
    /\ bclient = [i \in 1..Len(file_chunks) |-> 0]
    /\ boutcome = [i \in 1..Len(file_chunks) |-> NoOutcome]
    /\ bresult = [i \in 1..Len(file_chunks) |-> NoResult]
    /\ done_order = <<>>
    /\ snapshot = {}
    /\ yielded = <<>>
    /\ completed = 0
    /\ all_recommendations = <<>>
    /\ response = <<>>
    \* one stream is registered; the request names it or an id without entry
    /\ analysis_streams = {1}
    /\ queues = <<<<>>>>
    /\ puts = 0
    /\ gpc = <<>>
    /\ gid = <<>>
    /\ gout = <<>>
    /\ glog = <<>>
    /\ request_id \in {1, 3}

offStreamBatch == <<chunkVars, threadVars, statsVars, orchVars, requestVars,
                    analysis_streams, puts, gpc, gid, gout, glog,
    extraVars>>

\* streaming.py:95-96, 139-141: get_client; when it raises, [] is returned
StreamBatchGetClient(i) ==
    /\ bpc[i] = "queued"
    /\ lock = 0
    /\ LET r == get_client(clients, constructed, deepseek_key)
       IN  /\ clients' = r.clients
           /\ constructed' = r.constructed
           /\ bclient' = [bclient EXCEPT ![i] = r.client]
           /\ out' = IF r.raised THEN out ELSE out \cup {r.client}
           /\ bpc' = [bpc EXCEPT ![i] = IF r.raised THEN "done" ELSE "lookup"]
           /\ bresult' = [bresult EXCEPT ![i] = IF r.raised THEN EmptyList ELSE @]
           /\ done_order' = IF r.raised THEN Append(done_order, i) ELSE done_order
    /\ UNCHANGED <<offStreamBatch, deepseek_key, llm_provider, lock, boutcome,
                   queues>>

\* streaming.py:97-103: the queue of the analysis_id is looked up; without
\* one the function returns []
StreamBatchLookup(i) ==
    /\ bpc[i] = "lookup"
    /\ IF queue_found(analysis_streams, request_id)
       THEN /\ bpc' = [bpc EXCEPT ![i] = "parse"]
            /\ UNCHANGED <<bresult, done_order>>
       ELSE /\ bpc' = [bpc EXCEPT ![i] = "done"]
            /\ bresult' = [bresult EXCEPT ![i] = EmptyList]
            /\ done_order' = Append(done_order, i)
    /\ UNCHANGED <<offStreamBatch, poolVars, bclient, boutcome, queues>>

\* streaming.py:107-141: the answer is parsed, the progress event is put on
\* the queue and the function returns
StreamBatchParse(i) ==
    /\ bpc[i] = "parse"
    /\ \E o \in IF analysis_response_bound THEN ModelOutcomes ELSE {NoOutcome} :
          LET b == stream_batch_after_lookup(i, o)
          IN  /\ boutcome' = [boutcome EXCEPT ![i] = o]
              /\ bresult' = [bresult EXCEPT ![i] = b.result]
              /\ queues' = IF b.puts_progress
                           THEN [queues EXCEPT ![request_id] = Append(@, ProgressEvent(i))]
                           ELSE queues
    /\ bpc' = [bpc EXCEPT ![i] = "done"]
    /\ done_order' = Append(done_order, i)
    /\ UNCHANGED <<offStreamBatch, poolVars, bclient>>

NextStreamBatch ==
    \E i \in ChunkIds :
        \/ StreamBatchGetClient(i)
        \/ StreamBatchLookup(i)
        \/ StreamBatchParse(i)

SpecStreamBatch == InitStreamBatch /\ [][NextStreamBatch]_vars

---------------------------------------------------------------------------
(* SpecStreamAnalysis: analyze_repository (api/endpoints/analysis.py:       *)
(* 138-244) serving a request that carries an analysis_id, while one stream *)
(* is registered.  The handler is the one of SpecAnalysis: it never reads   *)
(* request.analysis_id and never touches the registry.                      *)

InitStreamAnalysis ==
    /\ ChunkIdle
    /\ ThreadsIdle
    /\ StatsIdle
    /\ ExtraIdle
    /\ deepseek_key \in BOOLEAN
    /\ llm_provider = "none"
    /\ clients = <<>>
    /\ lock = 0
    /\ constructed = <<>>
    /\ out = {}
    /\ apc = "start"
    /\ file_chunks = <<>>
    /\ max_workers = 0
    /\ bpc = <<>>
    /\ bclient = <<>>
    /\ boutcome = <<>>
    /\ bresult = <<>>
    /\ done_order = <<>>
    /\ snapshot = {}
    /\ yielded = <<>>
    /\ completed = 0
    /\ all_recommendations = <<>>
    /\ response = <<>>
    \* one stream is registered; the request names it or an id without entry
    /\ analysis_streams = {1}
    /\ queues = <<<<>>>>
    /\ puts = 0
    /\ gpc = <<>>
    /\ gid = <<>>
    /\ gout = <<>>
    /\ glog = <<>>
    /\ request_id \in {1, 3}

SpecStreamAnalysis == InitStreamAnalysis /\ [][NextAnalysis]_vars

---------------------------------------------------------------------------
(* SpecStats: StatService (services/stats_service.py) with concurrent      *)
(* increment_analysis_stats calls, the poll loop of background_tasks.py    *)
(* and readers of the counters (api/endpoints/stats.py:49-62).             *)

StatCallers == 1..MaxStatCalls

\* the arguments (num_files, num_recommendations) of the calls
StatArgs ==
    {[num_files |-> 5, num_recommendations |-> 2],
     [num_files |-> 0, num_recommendations |-> 3]}

\* the three keys are missing: each reads as 0 and INCR starts from 0
ZeroStats == [repos |-> 0, files |-> 0, recommendations |-> 0]

\* mutant: the counters are written with SET instead of INCRBY
pipeline_execute_set(c, args) ==
    [repos |-> c.repos + 1,
     files |-> args.num_files,
     recommendations |-> args.num_recommendations]

\* stats_service.py:54-58: the pipeline of INCR, INCRBY, INCRBY, executed as
\* one MULTI/EXEC transaction (the default of pipeline())
pipeline_execute(c, args) ==
    [repos |-> c.repos + 1,
     files |-> c.files + args.num_files,
     recommendations |-> c.recommendations + args.num_recommendations]

\* mutant: the read-back takes the recommendations from the files key
get_current_stats_wrong_key(configured, c) ==
    IF ~configured THEN ZeroStats
    ELSE [repos |-> c.repos, files |-> c.files, recommendations |-> c.files]

\* stats_service.py:19-46: the three GETs of one pipeline, each converted
\* with int(value or 0); without a client the result is all zeros
get_current_stats(configured, c) ==
    IF ~configured THEN ZeroStats
    ELSE [repos |-> c.repos, files |-> c.files,
          recommendations |-> c.recommendations]

\* stats_service.py:61, background_tasks.py:17: json.dumps of the dict: the
\* keys in their order, each with its number
json_dumps(st) ==
    <<<<"repos", st.repos>>, <<"files", st.files>>,
      <<"recommendations", st.recommendations>>>>

InitStats ==
    /\ ChunkIdle
    /\ PoolIdle
    /\ ThreadsIdle
    /\ AnalysisIdle
    /\ StreamIdle
    /\ RequestIdle
    /\ ExtraIdle
    /\ redis_client \in BOOLEAN
    /\ counters = ZeroStats
    /\ applied = <<>>
    /\ published = <<>>
    /\ observed = {}
    /\ spc = [c \in StatCallers |-> "start"]
    /\ sargs \in [StatCallers -> StatArgs]
    /\ snew = [c \in StatCallers |-> ZeroStats]
    /\ ppc = "start"
    /\ pcurrent = ZeroStats
    /\ polls = 0

\* stats_service.py:50-52: without a client the call returns at once
IncrementNoClient(c) ==
    /\ spc[c] = "start"
    /\ ~redis_client
    /\ spc' = [spc EXCEPT ![c] = "done"]
    /\ UNCHANGED <<offStats, redis_client, counters, applied, published,
                   observed, sargs, snew, ppc, pcurrent, polls>>

\* stats_service.py:54-58: await pipe.execute()
IncrementExecute(c) ==
    /\ spc[c] = "start"
    /\ redis_client
    /\ counters' = pipeline_execute(counters, sargs[c])
    /\ applied' = Append(applied, sargs[c])
    /\ spc' = [spc EXCEPT ![c] = "read"]
    /\ UNCHANGED <<offStats, redis_client, published, observed, sargs, snew,
                   ppc, pcurrent, polls>>

\* stats_service.py:60: new_stats = await self.get_current_stats()
IncrementReadBack(c) ==
    /\ spc[c] = "read"
    /\ snew' = [snew EXCEPT ![c] = get_current_stats(redis_client, counters)]
    /\ observed' = observed \cup {snew'[c]}
    /\ spc' = [spc EXCEPT ![c] = "publish"]
    /\ UNCHANGED <<offStats, redis_client, counters, applied, published, sargs,
                   ppc, pcurrent, polls>>

\* stats_service.py:61-62: the message is published
IncrementPublish(c) ==
    /\ spc[c] = "publish"
    /\ published' = Append(published, json_dumps(snew[c]))
    /\ spc' = [spc EXCEPT ![c] = "done"]
    /\ UNCHANGED <<offStats, redis_client, counters, applied, observed, sargs,
                   snew, ppc, pcurrent, polls>>

\* background_tasks.py:10-12: without a client the poll loop returns
PollNoClient ==
    /\ ppc = "start"
    /\ ~redis_client
    /\ ppc' = "stopped"
    /\ UNCHANGED <<offStats, redis_client, counters, applied, published,
                   observed, spc, sargs, snew, pcurrent, polls>>

\* background_tasks.py:14-17: a round of the loop reads the counters
PollRead ==
    /\ ppc \in {"start", "sleep"}
    /\ redis_client
    /\ polls < MaxPolls
    /\ pcurrent' = get_current_stats(redis_client, counters)
    /\ observed' = observed \cup {pcurrent'}
    /\ polls' = polls + 1
    /\ ppc' = "publish"
    /\ UNCHANGED <<offStats, redis_client, counters, applied, published, spc,
                   sargs, snew>>

\* background_tasks.py:19-24: the totals are published (a failure of publish
\* is logged) and the loop sleeps
PollPublish ==
    /\ ppc = "publish"
    /\ \/ published' = Append(published, json_dumps(pcurrent))
       \/ published' = published
    /\ ppc' = "sleep"
    /\ UNCHANGED <<offStats, redis_client, counters, applied, observed, spc,
                   sargs, snew, pcurrent, polls>>

\* api/endpoints/stats.py:49-62: a subscriber reads its initial snapshot
ReadSnapshot ==
    /\ redis_client
    /\ observed' = observed \cup {get_current_stats(redis_client, counters)}
    /\ UNCHANGED <<offStats, redis_client, counters, applied, published, spc,
                   sargs, snew, ppc, pcurrent, polls>>

NextStats ==
    \/ \E c \in StatCallers :
          \/ IncrementNoClient(c)
          \/ IncrementExecute(c)
          \/ IncrementReadBack(c)
          \/ IncrementPublish(c)
    \/ PollNoClient
    \/ PollRead
    \/ PollPublish
    \/ ReadSnapshot

SpecStats == InitStats /\ [][NextStats]_vars

---------------------------------------------------------------------------
(* Claims about chunk_files (checked under SpecChunk) *)

SameExtension == Cardinality(ChunkExts) <= 1

\* C6 as stated: concatenating the chunks gives back the original list
\* exactly, also for records whose 'name' keys have differing extensions.
C6_RoundTripExact == cpc = "done" => Flatten(chunks) = files

\* C6 (amended): the concatenation of the chunks holds every file of the
\* original list exactly once (none dropped, none duplicated), and it is the
\* original list in the original order whenever all the files have the same
\* extension key (in particular when no record has a 'name' key).
C6_RoundTripPermutation ==
    cpc = "done" =>
        /\ Len(Flatten(chunks)) = Len(files)
        /\ Range(Flatten(chunks)) = Range(files)
        /\ SameExtension => Flatten(chunks) = files

C6_Witness ==
    /\ cpc = "done"
    /\ Len(files) >= 3
    /\ ~SameExtension
    /\ Flatten(chunks) # files
    /\ Len(chunks) >= 2

\* C7: chunk_files returns exactly ceil(len(files) / chunk_size) chunks,
\* whatever the extensions (0 chunks for the empty list; 7 files with size 3
\* give chunks of sizes [3, 3, 1]).
C7_ChunkCount ==
    cpc = "done" =>
        /\ Len(chunks) = CeilDiv(Len(files), chunk_size)
        /\ (files = <<>> => chunks = <<>>)
        /\ (Len(files) = 7 /\ chunk_size = 3 => ChunkSizes = <<3, 3, 1>>)

C7_Witness ==
    /\ cpc = "done"
    /\ Len(files) = 7
    /\ chunk_size = 3
    /\ Cardinality(ChunkExts) = 3
    /\ ChunkSizes = <<3, 3, 1>>

\* C8: every chunk is non-empty and has at most chunk_size files, and only
\* the last chunk may have fewer than chunk_size.
C8_ChunkSizeBound ==
    cpc = "done" =>
        \A k \in 1..Len(chunks) :
            /\ Len(chunks[k]) >= 1
            /\ Len(chunks[k]) <= chunk_size
            /\ (k < Len(chunks) => Len(chunks[k]) = chunk_size)

C8_Witness ==
    /\ cpc = "done"
    /\ chunk_size = 3
    /\ Len(chunks) = 2
    /\ Len(chunks[1]) = 3
    /\ Len(chunks[2]) = 2
    /\ ~SameExtension

---------------------------------------------------------------------------
(* Claims about LLMClientPool (checked under SpecPool) *)

\* C2: under any interleaving of get_client and return_client calls, no
\* client instance is held by two callers at the same time: an instance
\* that get_client handed out and that has not been passed to return_client
\* since is not in the pool (so no get_client can hand it out again), the
\* pool holds no instance twice, and no two threads hold the same instance.
C2_PoolExclusivity ==
    /\ \A c \in out : c \notin Range(clients)
    /\ \A i, j \in 1..Len(clients) : i # j => clients[i] # clients[j]
    /\ \A t \in DOMAIN theld : theld[t] # 0 => theld[t] \in out
    /\ \A t, u \in DOMAIN theld : t # u /\ theld[t] # 0 => theld[t] # theld[u]

\* two threads hold clients at once; three get_client calls were served by
\* the two instances ever constructed and none raised, so one of the two
\* instances held went through get_client, return_client and get_client
C2_Witness ==
    /\ deepseek_key
    /\ Len(constructed) = 2
    /\ tpc[1] = "hold" /\ tpc[2] = "hold"
    /\ tops[1] + tops[2] >= 3
    /\ out = {theld[1], theld[2]}

---------------------------------------------------------------------------
(* Claims about analyze_file_batch and analyze_repository (checked under   *)
(* SpecAnalysis)                                                            *)

BagOfSeq(q) == [e \in Range(q) |-> Cardinality({k \in 1..Len(q) : q[k] = e})]

\* what the batches of all chunks returned, chunk after chunk
ReturnedByChunks ==
    Flatten([i \in ChunkIds |-> IF bresult[i].raised THEN <<>> ELSE bresult[i].value])

AllYielded == apc \in {"collect", "returned"} /\ Len(yielded) = Len(file_chunks)

\* C1: a client that analyze_file_batch acquired with get_client has been
\* given back with return_client when the call returns, on every exit path.
C1_ClientReleased == \A i \in DOMAIN bpc : bpc[i] = "done" => bclient[i] = 0

\* C3: analyze_file_batch never raises; when the model call raises, its text
\* is not JSON (or is JSON that has no length), or get_client fails, it
\* returns [] or a list of exactly one entry titled "JSON Parsing Error", and
\* a text that is not JSON gives exactly that one synthetic entry.
C3_BatchNeverRaises ==
    \A i \in DOMAIN bpc :
        bpc[i] = "done" =>
            /\ ~bresult[i].raised
            /\ boutcome[i].kind \in {"none", "raise", "not_json", "scalar"} =>
                  /\ bresult[i].kind = "list"
                  /\ \/ bresult[i].value = <<>>
                     \/ /\ Len(bresult[i].value) = 1
                        /\ bresult[i].value[1].title = "JSON Parsing Error"
            /\ boutcome[i].kind = "not_json" =>
                  /\ Len(bresult[i].value) = 1
                  /\ bresult[i].value[1].title = "JSON Parsing Error"

\* one batch saw a text that is not JSON, one a model call that raised and
\* one a get_client that raised
C3_Witness ==
    /\ \E i \in DOMAIN bpc :
          /\ bpc[i] = "done" /\ boutcome[i].kind = "not_json"
          /\ bresult[i].value = <<JsonParsingError(i)>>
    /\ \E i \in DOMAIN bpc :
          bpc[i] = "done" /\ boutcome[i].kind = "raise" /\ bresult[i] = EmptyList
    /\ \E i \in DOMAIN bpc :
          bpc[i] = "done" /\ boutcome[i].kind = "none" /\ bresult[i] = EmptyList

\* C4: when every chunk future has been merged, the merged list is as long
\* as the lists returned by the chunk batches together and holds the same
\* entries as a multiset, in whatever order the futures completed.
C4_MergeComplete ==
    AllYielded =>
        /\ Len(all_recommendations) = SumSeq([i \in ChunkIds |-> Len(bresult[i].value)])
        /\ BagOfSeq(all_recommendations) = BagOfSeq(ReturnedByChunks)
        /\ apc = "returned" => response = all_recommendations

\* three chunks merged in an order that is not the order of submission
C4_Witness ==
    /\ apc = "returned"
    /\ yielded = <<3, 1, 2>>
    /\ \A i \in ChunkIds : Len(bresult[i].value) >= 1
    /\ Len(response) >= 4

\* C5: whichever chunks fail (the model call raises, its text cannot be
\* parsed, no client can be had), the analysis goes on to its response: it
\* is never stuck, it fails only before the fan-out or on an answer whose
\* entries do not fit the response schema, and the response holds every
\* recommendation of every chunk whose answer was a JSON array.
C5_ChunkFailureIsolated ==
    /\ apc \in {"running", "collect"} => ENABLED NextAnalysis
    /\ apc = "failed" /\ max_workers > 0 => \E i \in ChunkIds : ~boutcome[i].valid
    /\ apc = "returned" =>
          \A i \in ChunkIds :
              boutcome[i].kind = "array" =>
                  \A k \in 1..boutcome[i].n :
                      ModelItem(i, k, boutcome[i]) \in Range(response)

\* a response after one model call raised, one text was not JSON and one
\* chunk gave two recommendations
C5_Witness ==
    /\ apc = "returned"
    /\ \E i \in ChunkIds : boutcome[i].kind = "raise"
    /\ \E i \in ChunkIds : boutcome[i].kind = "not_json"
    /\ \E i \in ChunkIds :
          /\ boutcome[i].kind = "array" /\ boutcome[i].n = 2
          /\ ModelItem(i, 2, boutcome[i]) \in Range(response)

---------------------------------------------------------------------------
(* Claims about the stream registry and event_generator (checked under     *)
(* SpecStream)                                                              *)

\* C9: once an event generator has yielded a COMPLETE event and has
\* finished, its analysis_id is no key of the registry; and the generator
\* yields nothing after the COMPLETE event.
C9_CleanupOnComplete ==
    \A g \in DOMAIN gpc :
        /\ gpc[g] = "finished" /\ Formatted([dict |-> TRUE, type |-> "COMPLETE"]) \in Range(gout[g])
              => gid[g] \notin analysis_streams
        /\ \A k \in 1..Len(gout[g]) :
              gout[g][k].json = "COMPLETE" => k = Len(gout[g])

\* a generator finished after PROGRESS and COMPLETE while the other stream
\* is still registered
C9_Witness ==
    \E g \in DOMAIN gpc :
        /\ gpc[g] = "finished"
        /\ gid[g] = 1
        /\ [k \in 1..Len(gout[g]) |-> gout[g][k].json] = <<"PROGRESS", "COMPLETE">>
        /\ analysis_streams = {2}

\* C10: an event generator connected to an analysis_id that is not in the
\* registry fails at once with the not-found error: it never yields an
\* event, and the step leaves the registry and its queues as they were.
C10_UnknownIdRejected ==
    /\ [](\A g \in DOMAIN gpc : gpc[g] = "not_found" => gout[g] = <<>>)
    /\ [][\A g \in DOMAIN gpc :
            (gpc[g] = "new" /\ gpc'[g] # "new" /\ gid'[g] \notin analysis_streams)
                => /\ gpc'[g] = "not_found"
                   /\ analysis_streams' = analysis_streams
                   /\ queues' = queues
                   /\ gout'[g] = <<>>]_vars

\* a generator is refused the id whose entry the other generator removed
\* when it finished, while another stream is registered
C10_Witness ==
    /\ DOMAIN gpc = Gens
    /\ gpc[1] = "finished"
    /\ gid[1] = 1
    /\ gpc[2] = "not_found"
    /\ gid[2] = 1
    /\ analysis_streams = {2}
    /\ queues[1] # <<>>

\* the event generators that hold the queue of id and wait for its next item
WaitingOn(id) == {g \in DOMAIN gpc : gid[g] = id /\ gpc[g] = "wait"}

\* a step in which the item at the head of the queue of id is taken
Takes(id) == queues[id] # <<>> /\ queues'[id] = Tail(queues[id])

\* C11 as stated: every item taken from the queue whose tag is one of
\* PROGRESS, RECOMMENDATION, COMPLETE, HEARTBEAT is serialized and yielded by
\* the event generator that took it, after what it yielded before.
C11_KnownEventsDelivered ==
    [][\A id \in DOMAIN queues :
          (Takes(id) /\ ~logs_error(Head(queues[id]))) =>
              \E g \in WaitingOn(id) :
                  gout'[g] = Append(gout[g], Formatted(Head(queues[id])))]_vars

\* C15: a wait that times out (the generator yields without taking an item)
\* yields one HEARTBEAT event, leaves the registry as it is and leaves the
\* generator in its loop: resumed, it waits again (it ends only when its
\* consumer closes it).
C15_HeartbeatOnTimeout ==
    [][\A g \in DOMAIN gpc :
          /\ (gpc[g] = "wait" /\ queues' = queues /\ gout'[g] # gout[g]) =>
                /\ gout'[g] = Append(gout[g], Formatted(HeartbeatEvent))
                /\ gpc'[g] = "yield"
                /\ analysis_streams' = analysis_streams
          /\ (gpc[g] = "yield" /\ gpc'[g] # gpc[g]) =>
                \/ gpc'[g] = "wait"
                \/ gpc'[g] = "finished" /\ gout'[g] = gout[g]]_vars

\* a generator has yielded two heartbeats in a row and waits again, its id
\* still registered
C15_Witness ==
    \E g \in DOMAIN gpc :
        /\ gpc[g] = "wait"
        /\ gout[g] = <<Formatted(HeartbeatEvent), Formatted(HeartbeatEvent)>>
        /\ gid[g] \in analysis_streams
        /\ glog[g] = 0

\* C16: an item taken from the queue that is not a mapping, or whose tag is
\* no known event type, is not yielded, does not end the generator and does
\* not remove the registry entry: the generator waits for the next item.
C16_UnknownEventsDropped ==
    [][\A id \in DOMAIN queues :
          (Takes(id) /\ logs_error(Head(queues[id]))) =>
              /\ analysis_streams' = analysis_streams
              /\ gout' = gout
              /\ gpc' = gpc
              /\ \E g \in WaitingOn(id) : glog'[g] = glog[g] + 1]_vars

\* a generator has dropped two such items, has yielded nothing and waits on
\* its registered id
C16_Witness ==
    \E g \in DOMAIN gpc :
        /\ glog[g] = 2
        /\ gout[g] = <<>>
        /\ gpc[g] = "wait"
        /\ gid[g] \in analysis_streams
        /\ queues[gid[g]] = <<>>

\* C17: a step that adds a key to the registry adds exactly one, an id that
\* was never in the registry before, with an empty queue; the other entries
\* and their queued events are left as they were.
C17_StreamStart ==
    [][\A id \in StreamIds :
          (id \in DOMAIN queues' /\ queues'[id] = <<>>
             /\ (id \notin DOMAIN queues \/ id \notin analysis_streams
                   \/ (queues[id] # <<>> /\ ~Takes(id)))
             /\ id \in analysis_streams') =>
              /\ id \notin DOMAIN queues
              /\ id \notin analysis_streams
              /\ analysis_streams' = analysis_streams \cup {id}
              /\ DOMAIN queues' = DOMAIN queues \cup {id}
              /\ \A k \in DOMAIN queues : queues'[k] = queues[k]]_vars

\* the second stream was started while the first had a queued event
C17_Witness ==
    /\ analysis_streams = {1, 2}
    /\ Len(queues[1]) = 2
    /\ queues[2] = <<>>
    /\ \A g \in DOMAIN gpc : gpc[g] = "new"


---------------------------------------------------------------------------
(* Claims about an analysis that carries an analysis_id (checked under     *)
(* SpecStreamBatch and SpecStreamAnalysis)                                  *)

\* schemas.py:74-77: AnalysisCompleteEvent
CompleteEvent(recs) == [dict |-> TRUE, type |-> "COMPLETE", recommendations |-> recs]

EventsOfType(q, ty) == SelectSeq(q, LAMBDA e : e.dict /\ e.type = ty)

\* the chunk indices of the PROGRESS events on a queue, in their order
ProgressIndices(q) ==
    LET pe == EventsOfType(q, "PROGRESS")
    IN  [k \in 1..Len(pe) |-> pe[k].chunk_index]

\* C12 as stated: with the queue of the analysis registered, the PROGRESS
\* events pushed to it are one for each finished chunk whose batch got a
\* client, in the order in which the chunks finished (so none twice for the
\* same chunk index).
C12_ProgressPerChunk ==
    request_id \in analysis_streams =>
        ProgressIndices(queues[request_id])
            = SelectSeq(done_order, LAMBDA i : bclient[i] # 0)

\* C13 as stated: once the analysis of a request whose analysis_id has a
\* queue has returned, that queue holds exactly one COMPLETE event, it
\* carries the merged recommendation list, and no PROGRESS event follows it.
C13_CompleteEvent ==
    (apc = "returned" /\ request_id \in analysis_streams) =>
        LET q == queues[request_id]
        IN  /\ EventsOfType(q, "COMPLETE") = <<CompleteEvent(all_recommendations)>>
            /\ q[Len(q)].type = "COMPLETE"

\* C14 as stated: a request whose analysis_id has no queue fails before any
\* work is done: no chunk is submitted, no client is constructed or taken
\* from a pool, no model call is made, no event is pushed and no response is
\* returned.
C14_StreamNotFound ==
    (request_id # 0 /\ request_id \notin analysis_streams) =>
        /\ apc \in {"start", "failed"}
        /\ constructed = <<>>
        /\ out = {}
        /\ \A i \in DOMAIN boutcome : boutcome[i] = NoOutcome
        /\ \A id \in DOMAIN queues : queues[id] = <<>>


---------------------------------------------------------------------------
(* Claims about the stats counters (checked under SpecStats and, for the   *)
(* update after an analysis, under SpecAnalysis)                            *)

\* the increment calls whose pipeline has been executed
Executed == {c \in DOMAIN spc : spc[c] \in {"read", "publish", "done"}}

\* the totals after the first k executed pipelines
StatsAfter(k) ==
    [repos |-> k,
     files |-> SumSeq([j \in 1..k |-> applied[j].num_files]),
     recommendations |-> SumSeq([j \in 1..k |-> applied[j].num_recommendations])]

\* C18: with a store, increment_analysis_stats(num_files, num_recommendations)
\* raises repos by exactly 1, files by num_files and recommendations by
\* num_recommendations, reads the totals back and publishes them as one
\* message; with no other writer and counters at (0,0,0), increment(5, 2)
\* publishes {repos: 1, files: 5, recommendations: 2}.
C18_StatsIncrement ==
    /\ [](redis_client =>
            /\ \A c \in DOMAIN spc :
                  (spc[c] = "done" /\ Len(applied) = 1
                     /\ sargs[c] = [num_files |-> 5, num_recommendations |-> 2]) =>
                      /\ snew[c] = [repos |-> 1, files |-> 5, recommendations |-> 2]
                      /\ <<<<"repos", 1>>, <<"files", 5>>, <<"recommendations", 2>>>>
                            \in Range(published)
            /\ Cardinality({c \in DOMAIN spc : spc[c] = "done"}) <= Len(published)
            /\ Len(published) <= Cardinality({c \in DOMAIN spc : spc[c] = "done"}) + polls)
    /\ [][\A c \in DOMAIN spc :
            /\ (spc[c] = "start" /\ spc'[c] = "read") =>
                  /\ counters'.repos = counters.repos + 1
                  /\ counters'.files = counters.files + sargs[c].num_files
                  /\ counters'.recommendations
                        = counters.recommendations + sargs[c].num_recommendations
            /\ (spc[c] = "read" /\ spc'[c] = "publish") => snew'[c] = counters
            /\ (spc[c] = "publish" /\ spc'[c] = "done") =>
                  published' = Append(published, json_dumps(snew[c]))]_vars

\* the only call that ran was increment(5, 2), and its message is the only
\* one published
C18_Witness ==
    /\ redis_client
    /\ Len(applied) = 1
    /\ \E c \in DOMAIN spc :
          /\ spc[c] = "done"
          /\ sargs[c] = [num_files |-> 5, num_recommendations |-> 2]
    /\ published = <<json_dumps([repos |-> 1, files |-> 5, recommendations |-> 2])>>

\* C19: the three increments of a call are applied together: whatever the
\* interleaving of increment calls, poll-loop reads and other reads, every
\* result read and every message published shows the totals after a whole
\* number of calls, and the stored totals are the sum of the increments of
\* all the calls executed so far.
C19_StatsAtomicity ==
    redis_client =>
        /\ Cardinality(Executed) = Len(applied)
        /\ counters = StatsAfter(Len(applied))
        /\ \A o \in observed : \E k \in 0..Len(applied) : o = StatsAfter(k)
        /\ \A j \in 1..Len(published) :
              \E k \in 0..Len(applied) : published[j] = json_dumps(StatsAfter(k))

\* two calls are over, the totals after the first and after the second were
\* both read, and the message of a call shows the increment of the other too
C19_Witness ==
    /\ redis_client
    /\ Len(applied) = 2
    /\ \A c \in DOMAIN spc : spc[c] = "done"
    /\ {StatsAfter(1), StatsAfter(2)} \subseteq observed
    /\ StatsAfter(1).files # StatsAfter(2).files
    /\ \A c \in DOMAIN spc : snew[c] = StatsAfter(2)
    /\ Len(published) = 3

\* C20 as stated: when the analysis has returned its response, the counters
\* have been raised by 1 repo, the number of files analysed and the number
\* of recommendations of the response.
C20_StatsAfterAnalysis ==
    apc = "returned" =>
        counters = [repos |-> 1,
                    files |-> SumSeq([i \in ChunkIds |-> Len(file_chunks[i])]),
                    recommendations |-> Len(response)]

---------------------------------------------------------------------------
(* Claims about the totals published (checked under SpecStats)             *)

\* the totals a published message carries
MessageTotals(m) ==
    [repos |-> m[1][2], files |-> m[2][2], recommendations |-> m[3][2]]

StatsLeq(a, b) ==
    /\ a.repos <= b.repos
    /\ a.files <= b.files
    /\ a.recommendations <= b.recommendations

\* C23 as stated: under any interleaving of increment calls, no counter ever
\* decreases, and of two published messages the later one never carries a
\* smaller total than the earlier one.
C23_StatsMonotonic ==
    [][/\ StatsLeq(counters, counters')
       /\ \A j, k \in 1..Len(published') :
             j < k => StatsLeq(MessageTotals(published'[j]),
                               MessageTotals(published'[k]))]_vars

---------------------------------------------------------------------------
(* Claims about the outcome and the merge order of analyze_repository      *)
(* (checked under SpecAnalysis)                                            *)

\* C24: the request ends in exactly one of two ways: the "Analysis failed"
\* error, and then no response at all even when chunks had given
\* recommendations, or the response, and then every future was collected
\* and the response is the whole merged list with entries that all fit the
\* schema; once it has ended, neither the outcome nor the response changes.
C24_SingleAggregateFailure ==
    /\ [](/\ apc = "failed" => response = <<>>
          /\ apc = "returned" =>
                /\ Len(yielded) = Len(file_chunks)
                /\ response = all_recommendations
                /\ \A k \in 1..Len(response) : response[k].valid)
    /\ [][(apc \in {"returned", "failed"}) =>
             (apc' = apc /\ response' = response)]_vars

\* the request failed after every chunk was collected, one of them with a
\* recommendation that fits the schema: nothing of it is returned
C24_Witness ==
    /\ apc = "failed"
    /\ Len(file_chunks) >= 2
    /\ Len(yielded) = Len(file_chunks)
    /\ \E k \in 1..Len(all_recommendations) : all_recommendations[k].valid
    /\ response = <<>>

IndexOf(s, e) == CHOOSE k \in 1..Len(s) : s[k] = e

\* C27 as stated: in the merged list the recommendations of chunk A come
\* before those of chunk B exactly when the batch of A completed before the
\* batch of B, and the recommendations of one chunk are contiguous and in
\* the order its batch returned them.
C27_MergeOrder ==
    /\ \A p, q \in 1..Len(all_recommendations) :
          LET x == all_recommendations[p]
              y == all_recommendations[q]
          IN  x.chunk # y.chunk =>
                 (p < q <=> IndexOf(done_order, x.chunk) < IndexOf(done_order, y.chunk))
    /\ all_recommendations =
          Flatten([k \in 1..Len(yielded) |-> bresult[yielded[k]].value])

\* the chunks that had not completed when as_completed was called
LateChunks(order) == SelectSeq(order, LAMBDA i : i \notin snapshot)

\* C27 amended: the merged list is the lists of the chunks one after the
\* other, each contiguous and in returned order, in the order as_completed
\* yielded the futures: first the futures that were complete when
\* as_completed was called, in any order, then the others in their order of
\* completion.
C27_MergeOrderAsYielded ==
    /\ all_recommendations =
          Flatten([k \in 1..Len(yielded) |-> bresult[yielded[k]].value])
    /\ \A k \in 1..Len(yielded) :
          yielded[k] \in snapshot => k <= Cardinality(snapshot)
    /\ LET late == LateChunks(done_order)
       IN  /\ Len(LateChunks(yielded)) <= Len(late)
           /\ LateChunks(yielded) = SubSeq(late, 1, Len(LateChunks(yielded)))

\* two chunks were complete when as_completed was called and were merged
\* against their order of completion, a third one completed later; all three
\* gave recommendations
C27_Witness ==
    /\ apc = "returned"
    /\ \E a, b \in snapshot :
          /\ IndexOf(done_order, a) < IndexOf(done_order, b)
          /\ IndexOf(yielded, b) < IndexOf(yielded, a)
    /\ \E c \in Range(yielded) : c \notin snapshot
    /\ \A i \in Range(yielded) : Len(bresult[i].value) >= 1

---------------------------------------------------------------------------
(* Claims about get_client on an empty pool (checked under SpecPool)       *)

\* C28 as stated: when the pool holds no client, get_client does not wait:
\* it constructs a client that is none of the instances constructed before
\* and returns it to the caller.
C28_GetClientNeverBlocks ==
    [][\A t \in DOMAIN tpc :
          tpc[t] = "get" /\ clients = <<>> /\ tpc'[t] # "get" =>
              (/\ tpc'[t] = "hold"
               /\ theld'[t] = Len(constructed) + 1
               /\ Len(constructed') = Len(constructed) + 1
               /\ lock' = 0)]_vars

---------------------------------------------------------------------------
(* get_current_stats on any store (SpecStatsRead)                          *)

MaxStored == 2

StatKeys == {"repos", "files", "recommendations"}

\* what GET gives for a key: None for a missing key, the text of a number,
\* or a text that int() does not accept
StoreValues ==
    {[kind |-> "nil", n |-> 0], [kind |-> "text", n |-> 0]}
    \cup {[kind |-> "int", n |-> k] : k \in 0..MaxStored}

\* stats_service.py:19-46 on any store.  Without a client: all zeros (20-25).
\* An exception of pipe.execute() is a redis error, which the handler of
\* line 40, `except (ValueError, TypeError)`, does not catch: it leaves the
\* call.  int(value or 0) of a text that is no number raises ValueError, and
\* the handler returns all zeros (40-46); None reads as 0.
\* get_current_stats above is this function on the stores the code itself
\* writes (numbers only) when the read succeeds.
get_current_stats_on(configured, fails, st) ==
    IF ~configured
    THEN [done |-> TRUE, raised |-> FALSE, value |-> ZeroStats]
    ELSE IF fails
    THEN [done |-> TRUE, raised |-> TRUE, value |-> ZeroStats]
    ELSE IF \E k \in StatKeys : st[k].kind = "text"
    THEN [done |-> TRUE, raised |-> FALSE, value |-> ZeroStats]
    ELSE [done |-> TRUE, raised |-> FALSE,
          value |-> [repos |-> st.repos.n, files |-> st.files.n,
                     recommendations |-> st.recommendations.n]]

offRead == <<chunkVars, poolVars, threadVars, analysisVars, streamVars,
             requestVars, statsVars, liveVars, loopVars, shutdownVars,
             extractVars, cacheVars>>

InitStatsRead ==
    /\ ChunkIdle
    /\ PoolIdle
    /\ ThreadsIdle
    /\ AnalysisIdle
    /\ StreamIdle
    /\ RequestIdle
    /\ LiveIdle
    /\ LoopIdle
    /\ ShutdownIdle
    /\ ExtractIdle
    /\ CacheIdle
    /\ redis_client \in BOOLEAN
    /\ counters = ZeroStats
    /\ applied = <<>>
    /\ published = <<>>
    /\ observed = {}
    /\ spc = <<>>
    /\ sargs = <<>>
    /\ snew = <<>>
    /\ ppc = "idle"
    /\ pcurrent = ZeroStats
    /\ polls = 0
    /\ store \in [StatKeys -> StoreValues]
    /\ execute_fails \in BOOLEAN
    /\ rresult = [done |-> FALSE, raised |-> FALSE, value |-> <<>>]

\* stats_service.py:19-46: one call
CallGetCurrentStats ==
    /\ ~rresult.done
    /\ rresult' = get_current_stats_on(redis_client, execute_fails, store)
    /\ UNCHANGED <<offRead, store, execute_fails>>

NextStatsRead == CallGetCurrentStats

SpecStatsRead == InitStatsRead /\ [][NextStatsRead]_vars

\* C21 as stated: whatever the store holds (a key missing, a value that is
\* no number), without a store and when the read of the store fails,
\* get_current_stats does not raise: it returns a mapping with exactly the
\* keys repos, files and recommendations, in which a counter that is missing
\* or cannot be parsed is 0.
C21_StatsReadNeverRaises ==
    rresult.done =>
        /\ ~rresult.raised
        /\ DOMAIN rresult.value = StatKeys
        /\ \A k \in StatKeys :
              redis_client /\ store[k].kind \in {"nil", "text"} =>
                  rresult.value[k] = 0

---------------------------------------------------------------------------
(* The poll loop and a subscriber of the stats channel (SpecStatsLive).    *)
(* The rounds of the loop are not counted here and of the channel only the *)
(* last message forwarded to the subscriber is kept, so that the loop can  *)
(* run for ever; the attempts that fail are finitely many.                 *)

MaxPollFailures == 2

\* mutant: an error of the read ends the poll loop
poll_after_error_stops == "stopped"

\* background_tasks.py:28-34: an exception of the round is logged, the loop
\* sleeps and goes on with the next round
poll_after_error == "sleep"

\* stats.py:79-83: a message published while the handler is subscribed is
\* taken with get_message and forwarded with send_json
forward(is_subscribed, last, message) ==
    IF is_subscribed THEN message ELSE last

offLive == <<chunkVars, poolVars, threadVars, analysisVars, streamVars,
             requestVars, readVars, loopVars, shutdownVars, extractVars, cacheVars>>

InitStatsLive ==
    /\ ChunkIdle
    /\ PoolIdle
    /\ ThreadsIdle
    /\ AnalysisIdle
    /\ StreamIdle
    /\ RequestIdle
    /\ ReadIdle
    /\ LoopIdle
    /\ ShutdownIdle
    /\ ExtractIdle
    /\ CacheIdle
    /\ redis_client = TRUE
    /\ counters = ZeroStats
    /\ applied = <<>>
    /\ published = <<>>
    /\ observed = {}
    /\ spc = [c \in StatCallers |-> "start"]
    /\ \E a \in StatArgs : sargs = [c \in StatCallers |-> a]
    /\ snew = [c \in StatCallers |-> ZeroStats]
    /\ ppc = "start"
    /\ pcurrent = ZeroStats
    /\ polls = 0
    /\ subscribed = FALSE
    /\ received = <<>>
    /\ pfails = 0

\* stats.py:73-75: pubsub.subscribe(STATS_CHANNEL)
LiveSubscribe ==
    /\ ~subscribed
    /\ subscribed' = TRUE
    /\ UNCHANGED <<offLive, statsVars, received, pfails>>

\* stats_service.py:61-62 with a subscriber on the channel
LiveIncrementPublish(c) ==
    /\ spc[c] = "publish"
    /\ received' = forward(subscribed, received, json_dumps(snew[c]))
    /\ spc' = [spc EXCEPT ![c] = "done"]
    /\ UNCHANGED <<offLive, redis_client, counters, applied, published,
                   observed, sargs, snew, ppc, pcurrent, polls, subscribed,
                   pfails>>

\* background_tasks.py:14-17, 28-31: a round of the loop reads the counters,
\* or the read raises a redis error
LivePollRead ==
    /\ ppc \in {"start", "sleep"}
    /\ \/ /\ pcurrent' = get_current_stats(redis_client, counters)
          /\ ppc' = "publish"
          /\ pfails' = pfails
       \/ /\ pfails < MaxPollFailures
          /\ pfails' = pfails + 1
          /\ pcurrent' = pcurrent
          /\ ppc' = poll_after_error
    /\ UNCHANGED <<offLive, redis_client, counters, applied, published,
                   observed, spc, sargs, snew, polls, subscribed, received>>

\* background_tasks.py:19-24: the totals are published, or publish raises
\* and the failure is logged; the loop sleeps
LivePollPublish ==
    /\ ppc = "publish"
    /\ \/ /\ received' = forward(subscribed, received, json_dumps(pcurrent))
          /\ pfails' = pfails
       \/ /\ pfails < MaxPollFailures
          /\ pfails' = pfails + 1
          /\ received' = received
    /\ ppc' = "sleep"
    /\ UNCHANGED <<offLive, redis_client, counters, applied, published,
                   observed, spc, sargs, snew, pcurrent, polls, subscribed>>

NextStatsLive ==
    \/ \E c \in StatCallers :
          \/ IncrementExecute(c)
          \/ IncrementReadBack(c)
          \/ LiveIncrementPublish(c)
    \/ LiveSubscribe
    \/ LivePollRead
    \/ LivePollPublish

\* the event loop resumes the poll task whenever its await is over
SpecStatsLive ==
    /\ InitStatsLive
    /\ [][NextStatsLive]_vars
    /\ WF_vars(LivePollRead)
    /\ WF_vars(LivePollPublish)

\* C22: while the poll loop runs, a subscriber is sooner or later forwarded
\* a message that equals the totals stored at that moment, whenever it
\* subscribed, whether or not increments occur, and also after reads and
\* publish attempts of the loop have failed.
C22_StatsConvergence == subscribed ~> (received = json_dumps(counters))

\* the subscriber holds the current totals, which are not zero, after it
\* subscribed behind the last increment and after two attempts of the loop
\* failed
C22_Witness ==
    /\ subscribed
    /\ pfails = MaxPollFailures
    /\ \A c \in DOMAIN spc : spc[c] = "done"
    /\ counters.repos = Len(applied)
    /\ counters.repos >= 2
    /\ received = json_dumps(counters)
    /\ ppc = "sleep"

---------------------------------------------------------------------------
(* The event loop during a request (SpecLoop): the request handler and the *)
(* other tasks of the application (event generators, the poll loop) are    *)
(* coroutines of one event loop; the chunk batches run on the threads of   *)
(* the ThreadPoolExecutor.                                                 *)

MaxTicks == 1

\* analysis.py:139-244: analyze_repository is a coroutine without a single
\* await: the `with ThreadPoolExecutor` block and the as_completed loop of
\* lines 204-224 wait on the thread of the event loop.  From its first
\* statement to its return or raise the handler keeps that thread.
LoopBusy == apc \in {"running", "collect"}

\* the handler is inside as_completed and no future is ready to be yielded
WaitingForFutures ==
    /\ apc = "collect"
    /\ Len(yielded) < Len(file_chunks)
    /\ NextYield = {}

InitLoop == InitAnalysis

\* asyncio: the event loop runs a step of another task when the coroutine
\* it was running has reached an await
LoopRunOther ==
    /\ ~LoopBusy
    /\ ticks < MaxTicks
    /\ ticks' = ticks + 1
    /\ UNCHANGED <<chunkVars, poolVars, threadVars, analysisVars, streamVars,
                   requestVars, statsVars, readVars, liveVars, shutdownVars,
                   extractVars, cacheVars>>

NextLoop ==
    \/ NextAnalysis
    \/ LoopRunOther

SpecLoop == InitLoop /\ [][NextLoop]_vars

\* C25 as stated: while the analysis waits for its chunk futures, the event
\* loop can run a step of another task.
C25_EventLoopNotBlocked ==
    WaitingForFutures /\ ticks < MaxTicks => ENABLED LoopRunOther

---------------------------------------------------------------------------
(* The size of the thread pool and of the client pool for every number of  *)
(* chunks, with the cap of the code (SpecWorkers)                          *)

\* analysis.py:199: the 10 of min(len(file_chunks), 10)
WORKER_CAP == 10

MaxWorkerFiles == 60

InitWorkers == InitAnalysis

\* analysis.py:110-136: what chunk_files(files, 5) returns for n fetched
\* records, which have no name and so fall into the one group 'unknown':
\* the slices of five, the last one shorter
ChunksOfFetched(n) ==
    [i \in 1..CeilDiv(n, AnalysisChunkSize) |->
        [k \in 1..Min(AnalysisChunkSize, n - AnalysisChunkSize * (i - 1)) |->
            FetchedFiles(n)[AnalysisChunkSize * (i - 1) + k]]]

\* analysis.py:193: file_chunks = chunk_files(file_contents, chunk_size=5)
WorkersChunk ==
    /\ apc = "start"
    /\ \E n \in 0..MaxWorkerFiles : file_chunks' = ChunksOfFetched(n)
    /\ apc' = "chunked"
    /\ UNCHANGED <<offAnalysis, poolVars, batchVars, max_workers, snapshot,
                   yielded, completed, all_recommendations, response>>

\* analysis.py:199: max_workers; line 204 gives it to the ThreadPoolExecutor
WorkersSize ==
    /\ apc = "chunked"
    /\ max_workers' = max_workers_for(Len(file_chunks), WORKER_CAP)
    /\ apc' = "sized"
    /\ UNCHANGED <<offAnalysis, poolVars, batchVars, file_chunks, snapshot,
                   yielded, completed, all_recommendations, response>>

\* analysis.py:200, multithreading_service.py:9-19:
\* LLMClientPool(size=max_workers, llm_provider=CURRENT_LLM_PROIVDER)
WorkersPool ==
    /\ apc = "sized"
    /\ llm_provider' = CURRENT_LLM_PROVIDER
    /\ clients' = NewPoolClients(max_workers)
    /\ constructed' = NewPoolConstructed(max_workers, CURRENT_LLM_PROVIDER)
    /\ apc' = "pooled"
    /\ UNCHANGED <<offAnalysis, deepseek_key, lock, out, batchVars, file_chunks,
                   max_workers, snapshot, yielded, completed,
                   all_recommendations, response>>

NextWorkers ==
    \/ WorkersChunk
    \/ WorkersSize
    \/ WorkersPool

SpecWorkers == InitWorkers /\ [][NextWorkers]_vars

\* C26: for every number c of chunks the orchestrator takes 1 worker when
\* c = 0, c workers when 1 <= c <= WORKER_CAP (3 workers for 3 chunks) and
\* WORKER_CAP workers above, and the client pool it constructs holds exactly
\* that many clients.
C26_WorkerCount ==
    apc \in {"sized", "pooled"} =>
        LET c == Len(file_chunks)
        IN  /\ c = 0 => max_workers = 1
            /\ 1 <= c /\ c <= WORKER_CAP => max_workers = c
            /\ c > WORKER_CAP => max_workers = WORKER_CAP
            /\ c = 3 => max_workers = 3
            /\ apc = "pooled" =>
                  /\ Len(clients) = max_workers
                  /\ Len(constructed) = max_workers
                  /\ \A i, j \in 1..Len(clients) : i # j => clients[i] # clients[j]

\* more chunks than the cap: a pool of WORKER_CAP clients
C26_Witness ==
    /\ apc = "pooled"
    /\ Len(file_chunks) = WORKER_CAP + 2
    /\ max_workers = WORKER_CAP
    /\ Len(clients) = WORKER_CAP

---------------------------------------------------------------------------
(* BackgroundManager (SpecShutdown): tasks and resources are added while   *)
(* the application runs (main.py:30-53 adds them at startup), then         *)
(* shutdown is called (main.py:57-59).                                     *)

MaxTasks == 2
MaxResources == 2

TaskIds == 1..MaxTasks
ResourceIds == 1..MaxResources

\* a task is over
TaskDone(st) ==
    st \in {"finished", "failed", "cancelled", "finished_on_cancel",
            "failed_on_cancel"}

\* list(self._tasks): the elements of the set in some order
ListOf(S) ==
    CHOOSE q \in [1..Cardinality(S) -> S] :
        \A i, j \in 1..Cardinality(S) : i # j => q[i] # q[j]

\* background_manager.py:34-35: gather(..., return_exceptions=True) returns
\* the exceptions of the tasks as results; shutdown goes on
after_gather(states) == "close"

\* mutant: an exception of close() leaves shutdown
after_close_no_handler(raised) == IF raised THEN "raised" ELSE "close"

\* background_manager.py:39-42: an exception of close() is swallowed and the
\* loop goes on with the next resource
after_close(raised) == "close"

offShutdown == <<chunkVars, poolVars, threadVars, analysisVars, streamVars,
                 requestVars, statsVars, readVars, liveVars, loopVars,
                 extractVars, cacheVars>>

\* background_manager.py:5-7
InitShutdown ==
    /\ ChunkIdle
    /\ PoolIdle
    /\ ThreadsIdle
    /\ AnalysisIdle
    /\ StreamIdle
    /\ RequestIdle
    /\ StatsIdle
    /\ ReadIdle
    /\ LiveIdle
    /\ LoopIdle
    /\ ExtractIdle
    /\ CacheIdle
    /\ tasks = {}
    /\ task_state = [t \in TaskIds |-> "none"]
    /\ tasks_to_await = <<>>
    /\ resources_to_cleanup = <<>>
    /\ close_calls = [r \in ResourceIds |-> "none"]
    /\ shpc = "running"

\* background_manager.py:9-15
add_task(t) ==
    /\ shpc = "running"
    /\ task_state[t] = "none"
    /\ \A u \in TaskIds : u < t => task_state[u] # "none"
    /\ tasks' = tasks \cup {t}
    /\ task_state' = [task_state EXCEPT ![t] = "running"]
    /\ UNCHANGED <<offShutdown, tasks_to_await, resources_to_cleanup,
                   close_calls, shpc>>

\* a task ends by itself, with a result or with an exception
TaskEnds(t) ==
    /\ task_state[t] = "running"
    /\ \E st \in {"finished", "failed"} :
          task_state' = [task_state EXCEPT ![t] = st]
    /\ UNCHANGED <<offShutdown, tasks, tasks_to_await, resources_to_cleanup,
                   close_calls, shpc>>

\* a task on which cancel() was called gets the CancelledError at its await:
\* it ends cancelled, or it catches the error and returns (as the poll loop
\* does, background_tasks.py:25-27), or its handler raises
TaskCancelled(t) ==
    /\ task_state[t] = "cancel_requested"
    /\ \E st \in {"cancelled", "finished_on_cancel", "failed_on_cancel"} :
          task_state' = [task_state EXCEPT ![t] = st]
    /\ UNCHANGED <<offShutdown, tasks, tasks_to_await, resources_to_cleanup,
                   close_calls, shpc>>

\* background_manager.py:14: the done callback of a task that is over,
\* self._tasks.discard, run by the event loop
TaskDoneCallback(t) ==
    /\ TaskDone(task_state[t])
    /\ t \in tasks
    /\ tasks' = tasks \ {t}
    /\ UNCHANGED <<offShutdown, task_state, tasks_to_await,
                   resources_to_cleanup, close_calls, shpc>>

\* background_manager.py:17-20: a resource without a callable close is not
\* registered
add_resource(r) ==
    /\ shpc = "running"
    /\ close_calls[r] = "none"
    /\ \A u \in ResourceIds : u < r => close_calls[u] # "none"
    /\ \/ /\ resources_to_cleanup' = Append(resources_to_cleanup, r)
          /\ close_calls' = [close_calls EXCEPT ![r] = "registered"]
       \/ /\ resources_to_cleanup' = resources_to_cleanup
          /\ close_calls' = [close_calls EXCEPT ![r] = "no_close"]
    /\ UNCHANGED <<offShutdown, tasks, task_state, tasks_to_await, shpc>>

\* background_manager.py:24-33: cancel() is called on every task of the set
\* (it does nothing to a task that is over) and the tasks are listed
ShutdownCancel ==
    /\ shpc = "running"
    /\ task_state' = [t \in TaskIds |->
                         IF t \in tasks /\ task_state[t] = "running"
                         THEN "cancel_requested" ELSE task_state[t]]
    /\ tasks_to_await' = ListOf(tasks)
    /\ shpc' = IF tasks = {} THEN "close" ELSE "gather"
    /\ UNCHANGED <<offShutdown, tasks, resources_to_cleanup, close_calls>>

\* background_manager.py:34-35: gather returns when every task is over;
\* self._tasks.clear()
ShutdownGathered ==
    /\ shpc = "gather"
    /\ \A i \in 1..Len(tasks_to_await) : TaskDone(task_state[tasks_to_await[i]])
    /\ shpc' = after_gather([i \in 1..Len(tasks_to_await) |->
                                task_state[tasks_to_await[i]]])
    /\ tasks' = IF shpc' = "close" THEN {} ELSE tasks
    /\ UNCHANGED <<offShutdown, task_state, tasks_to_await,
                   resources_to_cleanup, close_calls>>

\* background_manager.py:38-42: close() of the next resource of the list
ShutdownClose(r) ==
    /\ shpc = "close"
    /\ \E i \in 1..Len(resources_to_cleanup) :
          /\ resources_to_cleanup[i] = r
          /\ close_calls[r] = "registered"
          /\ \A j \in 1..(i - 1) : close_calls[resources_to_cleanup[j]] # "registered"
    /\ \E raised \in BOOLEAN :
          /\ close_calls' = [close_calls EXCEPT
                                ![r] = IF raised THEN "close_raised" ELSE "closed"]
          /\ shpc' = after_close(raised)
    /\ UNCHANGED <<offShutdown, tasks, task_state, tasks_to_await,
                   resources_to_cleanup>>

\* background_manager.py:37, 44: the loop is over (or the list was empty);
\* self._resources_to_cleanup.clear()
ShutdownReturn ==
    /\ shpc = "close"
    /\ \A i \in 1..Len(resources_to_cleanup) :
          close_calls[resources_to_cleanup[i]] # "registered"
    /\ resources_to_cleanup' = <<>>
    /\ shpc' = "done"
    /\ UNCHANGED <<offShutdown, tasks, task_state, tasks_to_await, close_calls>>

NextShutdown ==
    \/ \E t \in TaskIds :
          \/ add_task(t)
          \/ TaskEnds(t)
          \/ TaskCancelled(t)
          \/ TaskDoneCallback(t)
    \/ \E r \in ResourceIds :
          \/ add_resource(r)
          \/ ShutdownClose(r)
    \/ ShutdownCancel
    \/ ShutdownGathered
    \/ ShutdownReturn

SpecShutdown == InitShutdown /\ [][NextShutdown]_vars

\* C29: shutdown never raises; it calls cancel() on every managed task that
\* is still running and close() on every registered resource, whatever the
\* tasks and the earlier close() calls raised; when it has returned, no task
\* is left running, the task set is empty and the resource list is empty.
C29_Shutdown ==
    /\ [](/\ shpc # "raised"
          /\ shpc = "done" =>
                /\ tasks = {}
                /\ resources_to_cleanup = <<>>
                /\ \A t \in TaskIds :
                      task_state[t] \notin {"running", "cancel_requested"}
                /\ \A r \in ResourceIds : close_calls[r] # "registered")
    /\ [][(shpc = "running" /\ shpc' # "running") =>
             \A t \in tasks :
                 task_state[t] = "running" => task_state'[t] = "cancel_requested"]_vars

\* shutdown has returned after a task raised in its cancellation, another
\* one ended cancelled, and the close() of the first resource raised before
\* the second resource was closed
C29_Witness ==
    /\ shpc = "done"
    /\ \E t \in TaskIds : task_state[t] = "failed_on_cancel"
    /\ \E t \in TaskIds : task_state[t] = "cancelled"
    /\ close_calls[1] = "close_raised"
    /\ close_calls[2] = "closed"

---------------------------------------------------------------------------
(* _extract_json (SpecExtract).  A text is a sequence of characters; "nl"  *)
(* is a newline, "bt" a backtick, "q" a double quote and "x" any character *)
(* that is not a backtick, a bracket, a quote or whitespace; the fence is  *)
(* three backticks.                                                        *)

IsSpace(c) == c \in {" ", "nl"}

\* the text has a fence at position p
FenceAt(t, p) ==
    /\ p >= 1
    /\ p + 2 <= Len(t)
    /\ t[p] = "bt" /\ t[p + 1] = "bt" /\ t[p + 2] = "bt"

\* the text has json at position p
JsonAt(t, p) ==
    /\ p + 3 <= Len(t)
    /\ t[p] = "j" /\ t[p + 1] = "s" /\ t[p + 2] = "o" /\ t[p + 3] = "n"

\* the least position from p on with a fence, 0 when there is none
RECURSIVE FindFence(_, _)
FindFence(t, p) ==
    IF p + 2 > Len(t) THEN 0
    ELSE IF FenceAt(t, p) THEN p
    ELSE FindFence(t, p + 1)

\* \s*: the first position from p on that holds no whitespace
RECURSIVE SkipSpace(_, _)
SkipSpace(t, p) ==
    IF p <= Len(t) /\ IsSpace(t[p]) THEN SkipSpace(t, p + 1) ELSE p

\* str.strip()
RECURSIVE Strip(_)
Strip(t) ==
    IF t = <<>> THEN t
    ELSE IF IsSpace(Head(t)) THEN Strip(Tail(t))
    ELSE IF IsSpace(t[Len(t)]) THEN Strip(SubSeq(t, 1, Len(t) - 1))
    ELSE t

\* LLM_service.py:30-31: re.findall(json_pattern, text), its first match.
\* The pattern is a fence, (?:json)?, \s*, the lazy group ([\s\S]*?) and a
\* fence: after the first fence an optional json and the whitespace are
\* skipped, and the group runs up to the next fence.  <<>> without match.
FirstMatch(t) ==
    LET p == FindFence(t, 1)
        a == IF JsonAt(t, p + 3) THEN p + 7 ELSE p + 3
        b == SkipSpace(t, a)
        r == FindFence(t, b)
    IN  IF p = 0 \/ r = 0 THEN <<>> ELSE <<SubSeq(t, b, r - 1)>>

\* LLM_service.py:28-39
extract_json(t) ==
    LET matches == FirstMatch(t)
        stripped == Strip(t)
    IN  IF matches # <<>> THEN Strip(matches[1])
        ELSE IF /\ stripped # <<>>
                /\ Head(stripped) = "["
                /\ stripped[Len(stripped)] = "]"
        THEN stripped
        ELSE t

Fence == <<"bt", "bt", "bt">>
JsonTag == <<"j", "s", "o", "n">>

\* texts of valid JSON arrays: [], [x], ["x"], [[]], [ "x" ], and arrays
\* with a string that holds three backticks in a row once and twice
JsonArrays ==
    {<<"[", "]">>,
     <<"[", "x", "]">>,
     <<"[", "q", "x", "q", "]">>,
     <<"[", "[", "]", "]">>,
     <<"[", " ", "q", "x", "q", "nl", "]">>,
     <<"[", "q", "bt", "bt", "bt", "q", "]">>,
     <<"[", "q", "bt", "bt", "bt", "x", "bt", "bt", "bt", "q", "]">>}

\* prose before and after the array, whitespace around it
Proses == {<<>>, <<"x">>, <<"x", " ", "x", "nl">>}
Spaces == {<<>>, <<"nl">>, <<" ", "nl">>}

\* texts that are neither a fenced block nor a bare array
OtherTexts ==
    {<<>>, <<"x">>, <<" ", "x", "nl">>, <<"x", "[", "x", "]">>,
     <<"[", "x", "]", "x">>, <<"bt", "bt", "x", "bt", "bt">>,
     <<"nl", "bt", "bt", "bt", "j", "s", "o", "n", "nl", "[", "]">>}

Forms == {"fenced_json", "fenced", "bare", "two_blocks", "other"}

\* the model output that carries array a in the given form
Output(form, a, b, pre, post, sp) ==
    CASE form = "fenced_json" ->
            pre \o Fence \o JsonTag \o sp \o a \o sp \o Fence \o post
      [] form = "fenced" -> pre \o Fence \o sp \o a \o sp \o Fence \o post
      [] form = "bare" -> sp \o a \o sp
      [] form = "two_blocks" ->
            pre \o Fence \o JsonTag \o sp \o a \o sp \o Fence \o post
                \o Fence \o JsonTag \o sp \o b \o sp \o Fence
      [] OTHER -> a

offExtract == <<chunkVars, poolVars, threadVars, analysisVars, streamVars,
                requestVars, statsVars, readVars, liveVars, loopVars,
                shutdownVars, cacheVars>>

InitExtract ==
    /\ ChunkIdle
    /\ PoolIdle
    /\ ThreadsIdle
    /\ AnalysisIdle
    /\ StreamIdle
    /\ RequestIdle
    /\ StatsIdle
    /\ ReadIdle
    /\ LiveIdle
    /\ LoopIdle
    /\ ShutdownIdle
    /\ CacheIdle
    /\ llm_form \in Forms
    /\ llm_array \in IF llm_form = "other" THEN OtherTexts ELSE JsonArrays
    /\ \E b \in JsonArrays, pre \in Proses, post \in Proses, sp \in Spaces :
          llm_text = Output(llm_form, llm_array, b, pre, post, sp)
    /\ extracted = [done |-> FALSE, value |-> <<>>]

\* LLM_service.py:28-39: one call
CallExtractJson ==
    /\ ~extracted.done
    /\ extracted' = [done |-> TRUE, value |-> extract_json(llm_text)]
    /\ UNCHANGED <<offExtract, llm_array, llm_form, llm_text>>

NextExtract == CallExtractJson

SpecExtract == InitExtract /\ [][NextExtract]_vars

\* C30 as stated: for every valid JSON array text A, _extract_json returns
\* exactly A when A is wrapped in a triple-backtick fence, with or without
\* the json tag and with text around the fence, and when A is bare with
\* whitespace around it; of several fenced blocks it returns the content of
\* the first; an output that is neither is returned unmodified.
C30_JsonExtraction ==
    extracted.done =>
        IF llm_form = "other"
        THEN extracted.value = llm_text
        ELSE extracted.value = llm_array

---------------------------------------------------------------------------
(* More claims about the stream registry and event_generator (checked      *)
(* under SpecStream)                                                       *)

\* the event generators that were connected to id
ConnectedTo(id) ==
    {g \in DOMAIN gpc : gid[g] = id /\ gpc[g] \notin {"new", "not_found"}}

\* C31: an entry leaves the registry only in a step in which an event
\* generator of its analysis_id terminates (after COMPLETE, or closed or
\* cancelled before it); a generator that has terminated leaves no entry of
\* its id behind; and the id of a stream that was started and to which no
\* generator ever connected stays in the registry.
C31_RegistryCleanupPath ==
    /\ [](/\ \A g \in DOMAIN gpc :
                gpc[g] = "finished" => gid[g] \notin analysis_streams
          /\ \A id \in DOMAIN queues :
                ConnectedTo(id) = {} => id \in analysis_streams)
    /\ [][\A id \in analysis_streams :
             id \notin analysis_streams' =>
                \E g \in DOMAIN gpc :
                    /\ gid[g] = id
                    /\ gpc[g] \in {"wait", "yield", "yield_last"}
                    /\ gpc'[g] = "finished"]_vars

\* a generator was closed before any COMPLETE event and its id left the
\* registry; the other stream was started, has an event waiting, was never
\* connected to and is still registered
C31_Witness ==
    /\ gpc[1] = "finished"
    /\ gid[1] = 1
    /\ \A k \in 1..Len(gout[1]) : gout[1][k].json # "COMPLETE"
    /\ gout[1] # <<>>
    /\ gpc[2] = "new"
    /\ 2 \in DOMAIN queues
    /\ queues[2] # <<>>
    /\ analysis_streams = {2}

\* the sum of f over the set S
RECURSIVE SumOver(_, _)
SumOver(f, S) ==
    IF S = {} THEN 0
    ELSE LET x == CHOOSE y \in S : TRUE IN f[x] + SumOver(f, S \ {x})

\* the events a generator yielded that came from a queue (a heartbeat is
\* made by the generator itself, streaming.py:60)
FromQueue(g) == {k \in 1..Len(gout[g]) : gout[g][k].json # "HEARTBEAT"}

\* C32: every event put on a queue is taken at most once: the events the
\* generators yielded from the queues and the items still queued are together
\* no more than the items that were put; a generator yields a queued event
\* only in the step that takes it off the head of its queue, and in that step
\* no other generator yields anything, also with two generators connected to
\* the same analysis_id.
C32_ExactlyOnceConsumption ==
    /\ [](SumOver([g \in DOMAIN gout |-> Cardinality(FromQueue(g))], DOMAIN gout)
             + SumOver([id \in DOMAIN queues |-> Len(queues[id])], DOMAIN queues)
          <= puts)
    /\ [][\A g \in DOMAIN gout :
             (/\ gout'[g] # gout[g]
              /\ gout'[g][Len(gout'[g])].json # "HEARTBEAT") =>
                 /\ Takes(gid[g])
                 /\ gout'[g] = Append(gout[g], Formatted(Head(queues[gid[g]])))
                 /\ \A h \in DOMAIN gout \ {g} : gout'[h] = gout[h]]_vars

\* two generators are connected to the same stream, two events were put on
\* its queue and each generator yielded one of them
C32_Witness ==
    /\ gid[1] = gid[2]
    /\ gpc[1] # "new" /\ gpc[2] # "new"
    /\ puts = 2
    /\ Cardinality(FromQueue(1)) = 1
    /\ Cardinality(FromQueue(2)) = 1
    /\ queues[gid[1]] = <<>>

\* SpecStream with a consumer that keeps reading: a generator that can take
\* an item from its queue does so, and a generator suspended at a yield is
\* resumed.
SpecStreamFair ==
    /\ SpecStream
    /\ \A g \in Gens :
          /\ WF_vars(GeneratorReceive(g))
          /\ WF_vars(GeneratorResume(g))
          /\ WF_vars(GeneratorBreak(g))

\* a COMPLETE event is on the queue of id
CompleteQueued(id) ==
    /\ id \in DOMAIN queues
    /\ \E k \in 1..Len(queues[id]) : queues[id][k].dict /\ queues[id][k].type = "COMPLETE"

\* C33 as stated: once a COMPLETE event has been put on the queue of an
\* analysis_id, every event generator connected to that id eventually
\* terminates, with one generator and with more than one.
C33_StreamTermination ==
    \A g \in Gens :
        (g \in ConnectedTo(gid[g]) /\ CompleteQueued(gid[g])) ~> (gpc[g] = "finished")

---------------------------------------------------------------------------
(* More claims about the client pool and the batches of one analysis       *)

\* C34 as stated: within one analysis the pool is never empty when a batch
\* calls get_client, so get_client never constructs a client beyond the
\* pool's initial ones, whatever the number of chunks and whichever batches
\* fail.
C34_PoolNeverEmptyAtGet ==
    [][\A i \in ChunkIds :
          (bpc[i] = "queued" /\ bpc'[i] # "queued") =>
              (clients # <<>> /\ constructed' = constructed)]_vars

\* C35 as stated: every client that get_client of a pool hands out is a
\* client of the provider the pool was built with, whether it was popped
\* from the pool or constructed because the pool was empty.
C35_PoolProvider ==
    \A t \in Threads :
        tpc[t] = "hold" => constructed[theld[t]] = llm_provider

\* C36: return_client always adds the client it is given, whatever the
\* length of the pool; a get_client that finds a client pooled removes
\* exactly one, a get_client on an empty pool leaves it empty, and no other
\* step changes the pool: the pooled count is the initial size minus the
\* popping gets plus the returns, and it can exceed the configured size.
C36_PoolNeverDiscards ==
    [][\A t \in Threads :
          /\ (tpc[t] = "return" /\ tpc'[t] = "idle") =>
                 clients' = Append(clients, theld[t])
          /\ (tpc[t] = "get" /\ tpc'[t] # "get") =>
                 Len(clients') = IF clients = <<>> THEN 0 ELSE Len(clients) - 1
          /\ (\A u \in Threads :
                 ~(tpc[u] = "return" /\ tpc'[u] = "idle")
                 /\ ~(tpc[u] = "get" /\ tpc'[u] # "get")) =>
                 clients' = clients]_vars

\* a pool built for groq holds, after the returns, more clients than it was
\* built with: a client constructed on the overflow path was returned too
C36_Witness ==
    /\ llm_provider = "groq"
    /\ Len(clients) > Cardinality({c \in DOMAIN constructed : constructed[c] = "groq"})
    /\ \E c \in DOMAIN constructed : constructed[c] = "groq"
    /\ \A t \in Threads : tpc[t] = "idle"
    /\ \E k \in 1..Len(clients) : constructed[clients[k]] = "deepseek"

\* the steps the batches still have to take: get_client, the model call,
\* and return_client or the except clause
BatchStepsLeft ==
    3 * Cardinality({i \in ChunkIds : bpc[i] = "queued"})
    + 2 * Cardinality({i \in ChunkIds : bpc[i] = "call"})
    + Cardinality({i \in ChunkIds : bpc[i] = "return"})

\* the most chunks a request can have
MostChunks == CeilDiv(MaxFetched, AnalysisChunkSize)

\* a bound on the steps the request still has to take: the steps of its
\* batches, the call of as_completed, one round of the loop per future not
\* yet yielded, and the return
StepsLeft ==
    CASE apc = "start" -> 4 * MostChunks + 3
      [] apc = "running" -> 2 + (Len(file_chunks) - Len(yielded)) + BatchStepsLeft
      [] apc = "collect" -> 1 + (Len(file_chunks) - Len(yielded)) + BatchStepsLeft
      [] OTHER -> 0

\* C37: the synchronous analysis ends, with a response or with its single
\* failure, when every model call returns or raises, for every number of
\* chunks: before it has ended some step of the request or of a batch can
\* always be taken (no step waits for anything but a model call, a worker or
\* a finished future), and every step takes the bound StepsLeft down, which
\* is never negative, so there is no endless run. And it has not ended while
\* a batch has not finished, so a model call that never returns keeps it
\* from returning.
C37_AnalysisTermination ==
    /\ [](/\ apc \notin {"returned", "failed"} => ENABLED NextAnalysis
          /\ apc \in {"returned", "failed"} =>
                \A i \in ChunkIds : bpc[i] = "done"
          /\ StepsLeft >= 0)
    /\ [][StepsLeft' < StepsLeft]_vars

\* the analysis of three chunks returned its response after one model call
\* raised and another gave a list
C37_Witness ==
    /\ apc = "returned"
    /\ Len(file_chunks) = 3
    /\ \E i \in ChunkIds : boutcome[i].kind = "raise"
    /\ \E i \in ChunkIds : boutcome[i].kind = "array" /\ boutcome[i].n > 0

\* C38 as stated: for every model output, a valid JSON text that is not an
\* array included, what analyze_file_batch returns is a list.
C38_BatchResultIsList ==
    \A i \in ChunkIds :
        bpc[i] = "done" => (~bresult[i].raised /\ bresult[i].kind = "list")

---------------------------------------------------------------------------
(* SpecCache: one call of BaseLanguageModel.call_model_with_cache           *)
(* (services/LLM_service.py:55-76)                                          *)

\* the most calls of call_model within one call_model_with_cache
MaxModelCalls == 2

\* what redis_client.get gives: a stored response, a stored empty string,
\* None for a missing key, or an exception
CacheGets == {"value", "empty", "none", "raises"}
CacheSets == {"ok", "raises"}
\* how a call of call_model ends
ModelCallEnds == {"returns", "raises"}

\* LLM_service.py:57: `not settings.USE_REDIS or not redis_client`
caching_disabled(env) == ~env.use_redis \/ ~env.redis_client

\* LLM_service.py:66: `if cached_response`, an empty string is no response
cached_found(got) == got = "value"

\* self.call_model(prompt): how the call ends that follows n earlier ones
call_model(env, n) == env.model[n + 1]

offCache == <<chunkVars, poolVars, threadVars, analysisVars, streamVars,
              requestVars, statsVars, readVars, liveVars, loopVars,
              shutdownVars, extractVars>>

InitCache ==
    /\ ChunkIdle
    /\ PoolIdle
    /\ ThreadsIdle
    /\ AnalysisIdle
    /\ StreamIdle
    /\ RequestIdle
    /\ StatsIdle
    /\ ReadIdle
    /\ LiveIdle
    /\ LoopIdle
    /\ ShutdownIdle
    /\ ExtractIdle
    /\ cache_env \in [use_redis : BOOLEAN, redis_client : BOOLEAN,
                      get : CacheGets, set : CacheSets,
                      model : [1..MaxModelCalls -> ModelCallEnds]]
    /\ cmpc = "start"
    /\ model_calls = 0
    /\ cm_result = "none"

\* LLM_service.py:57-62: the test of the settings and of the argument
CacheTest ==
    /\ cmpc = "start"
    /\ cmpc' = IF caching_disabled(cache_env) THEN "direct" ELSE "get"
    /\ UNCHANGED <<offCache, cache_env, model_calls, cm_result>>

\* LLM_service.py:59: the call without caching; its exception leaves
\* call_model_with_cache
CacheDirectCall ==
    /\ cmpc = "direct"
    /\ model_calls < MaxModelCalls
    /\ model_calls' = model_calls + 1
    /\ IF call_model(cache_env, model_calls) = "returns"
       THEN cmpc' = "returned" /\ cm_result' = "response"
       ELSE cmpc' = "raised" /\ cm_result' = cm_result
    /\ UNCHANGED <<offCache, cache_env>>

\* LLM_service.py:64-67, 72: redis_client.get inside the try; its exception
\* is caught by the except clause of line 72
CacheGet ==
    /\ cmpc = "get"
    /\ IF cache_env.get = "raises"
       THEN cmpc' = "fallback" /\ cm_result' = cm_result
       ELSE IF cached_found(cache_env.get)
       THEN cmpc' = "returned" /\ cm_result' = "cached"
       ELSE cmpc' = "call" /\ cm_result' = cm_result
    /\ UNCHANGED <<offCache, cache_env, model_calls>>

\* LLM_service.py:69, 72: the call inside the try; its exception is caught
\* by the except clause of line 72
CacheCall ==
    /\ cmpc = "call"
    /\ model_calls < MaxModelCalls
    /\ model_calls' = model_calls + 1
    /\ IF call_model(cache_env, model_calls) = "returns"
       THEN cmpc' = "set" /\ cm_result' = "response"
       ELSE cmpc' = "fallback" /\ cm_result' = cm_result
    /\ UNCHANGED <<offCache, cache_env>>

\* LLM_service.py:70-72: redis_client.set inside the try, then the return;
\* its exception is caught by the except clause of line 72
CacheSet ==
    /\ cmpc = "set"
    /\ cmpc' = IF cache_env.set = "raises" THEN "fallback" ELSE "returned"
    /\ UNCHANGED <<offCache, cache_env, model_calls, cm_result>>

\* LLM_service.py:73-76: the call in the except clause; its exception leaves
\* call_model_with_cache
CacheFallbackCall ==
    /\ cmpc = "fallback"
    /\ model_calls < MaxModelCalls
    /\ model_calls' = model_calls + 1
    /\ IF call_model(cache_env, model_calls) = "returns"
       THEN cmpc' = "returned" /\ cm_result' = "response"
       ELSE cmpc' = "raised" /\ cm_result' = cm_result
    /\ UNCHANGED <<offCache, cache_env>>

NextCache ==
    \/ CacheTest
    \/ CacheDirectCall
    \/ CacheGet
    \/ CacheCall
    \/ CacheSet
    \/ CacheFallbackCall

SpecCache == InitCache /\ [][NextCache]_vars

\* the call found a response in the cache
CacheHit == ~caching_disabled(cache_env) /\ cached_found(cache_env.get)

\* C39 as stated: call_model_with_cache calls the model at most once: not
\* at all when the response is found in the cache and exactly once
\* otherwise, however the cache read, the cache write and the model call
\* end.
C39_BackendAtMostOnce ==
    /\ model_calls <= 1
    /\ cmpc \in {"returned", "raised"} =>
          model_calls = IF CacheHit THEN 0 ELSE 1


============================================================================
